---------------------------- MODULE Spec2Model ----------------------------
(***************************************************************************)
(* A model of the backtest execution engine of trading-strategy-lab:       *)
(* Portfolio / Position (src/backtester/portfolio.py), Trade and           *)
(* BacktestResult (src/backtester/trade.py) and Backtester                 *)
(* (src/backtester/engine.py).                                             *)
(*                                                                         *)
(* Python floats are modelled as exact rationals <<n, d>> (d > 0, lowest   *)
(* terms); share quantities are integers.  Optional values are sequences   *)
(* of length at most one (<<>> is None).  Where the rounding of a float    *)
(* operation decides what the code does, the operation is modelled in      *)
(* binary64 (specification SpecFloat).                                     *)
(***************************************************************************)
EXTENDS Integers, Sequences, FiniteSets, TLC

(***************************************************************************)
(* Exact rational arithmetic                                               *)
(***************************************************************************)
Abs(x) == IF x < 0 THEN -x ELSE x

\* the only element of a set of one element
Only(S) == CHOOSE x \in S : TRUE

RECURSIVE Gcd(_, _)
Gcd(a, b) == IF b = 0 THEN a ELSE Gcd(b, a % b)

Norm(n, d) ==
    LET s == IF d < 0 THEN -1 ELSE 1
        g == Gcd(Abs(n), Abs(d))
    IN  IF n = 0 THEN <<0, 1>> ELSE <<(s * n) \div g, (s * d) \div g>>

\* Amounts too wide for a machine integer: a magnitude is its digits to the
\* base Base, least significant first, without leading zeros; a rational
\* that does not fit <<n, d>> is <<sign, |n| digits, d digits>>.  The
\* operations that call one another are the cases of one recursive
\* definition, Wide, which takes its arguments as a tuple.
Base == 1000
\* factors up to Small have products whose sums of two fit a machine integer
Small == 32767

RECURSIVE Wide(_, _)
RECURSIVE Strip(_)
RECURSIVE AddFrom(_, _, _)
RECURSIVE SubFrom(_, _, _)
RECURSIVE MulFrom(_, _, _)

Sign(x) == IF x < 0 THEN -1 ELSE IF x = 0 THEN 0 ELSE 1
Min(a, b) == IF a <= b THEN a ELSE b
Max(a, b) == IF a >= b THEN a ELSE b

Dg(m, i) == IF 1 <= i /\ i <= Len(m) THEN m[i] ELSE 0

Digit0(m) == IF m = <<>> THEN 0 ELSE Head(m)
Rest(m) == IF m = <<>> THEN <<>> ELSE Tail(m)

\* m without its leading zeros
Strip(m) ==
    IF m = <<>> THEN <<>>
    ELSE IF m[Len(m)] = 0 THEN Strip(SubSeq(m, 1, Len(m) - 1)) ELSE m

\* the magnitude of 0 <= n < 2^31
ToMag(n) ==
    IF n = 0 THEN <<>>
    ELSE IF n < Base THEN <<n>>
    ELSE IF n < Base * Base THEN <<n % Base, n \div Base>>
    ELSE IF n < Base * Base * Base
    THEN <<n % Base, (n \div Base) % Base, n \div (Base * Base)>>
    ELSE <<n % Base, (n \div Base) % Base, (n \div (Base * Base)) % Base,
           n \div (Base * Base * Base)>>

\* the magnitude is at most 2^31 - 1 = 2 147 483 647 to the base Base
FitsInt(m) ==
    \/ Len(m) <= 3
    \/ /\ Len(m) = 4
       /\ \/ m[4] = 1
          \/ m[4] = 2 /\ m[3] < 147
          \/ m[4] = 2 /\ m[3] = 147 /\ m[2] < 483
          \/ m[4] = 2 /\ m[3] = 147 /\ m[2] = 483 /\ m[1] <= 647

\* the integer of a magnitude that fits one
MagInt(m) ==
    Dg(m, 1) + Base * Dg(m, 2) + Base * Base * Dg(m, 3)
    + Base * Base * Base * Dg(m, 4)

\* the highest position where a and b, of one length, differ
DiffTop(a, b) ==
    CHOOSE i \in DOMAIN a : a[i] # b[i] /\ \A j \in DOMAIN a : j > i => a[j] = b[j]

MagCmp(a, b) ==
    IF Len(a) # Len(b) THEN (IF Len(a) < Len(b) THEN -1 ELSE 1)
    ELSE IF a = b THEN 0
    ELSE IF a[DiffTop(a, b)] < b[DiffTop(a, b)] THEN -1 ELSE 1

\* a + b + carry
AddFrom(a, b, carry) ==
    IF a = <<>> /\ b = <<>> THEN (IF carry = 0 THEN <<>> ELSE <<carry>>)
    ELSE <<(Digit0(a) + Digit0(b) + carry) % Base>>
         \o AddFrom(Rest(a), Rest(b), (Digit0(a) + Digit0(b) + carry) \div Base)

MagAdd(a, b) == AddFrom(a, b, 0)

\* a - b - borrow for a >= b, leading zeros kept
SubFrom(a, b, borrow) ==
    IF a = <<>> THEN <<>>
    ELSE <<(Head(a) - Digit0(b) - borrow + Base) % Base>>
         \o SubFrom(Tail(a), Rest(b), IF Head(a) - Digit0(b) - borrow < 0 THEN 1 ELSE 0)

MagSub(a, b) == Strip(SubFrom(a, b, 0))

\* a * d + carry for a digit d
MulFrom(a, d, carry) ==
    IF a = <<>> THEN (IF carry = 0 THEN <<>> ELSE <<carry>>)
    ELSE <<(Head(a) * d + carry) % Base>>
         \o MulFrom(Tail(a), d, (Head(a) * d + carry) \div Base)

MagMulDigit(a, d) == Strip(MulFrom(a, d, 0))

\* m * Base^k
ShiftBy(m, k) == IF m = <<>> THEN <<>> ELSE [i \in 1..k |-> 0] \o m

\* a * b, b split in halves
MagMulDef(a, b) ==
    IF a = <<>> \/ b = <<>> THEN <<>>
    ELSE IF Len(b) = 1 THEN MagMulDigit(a, b[1])
    ELSE MagAdd(Wide("MagMul", <<a, Strip(SubSeq(b, 1, Len(b) \div 2))>>),
                ShiftBy(Wide("MagMul", <<a, SubSeq(b, Len(b) \div 2 + 1, Len(b))>>),
                        Len(b) \div 2))

\* the digits of m from position k up, as far as a quotient digit's
\* estimate reads them
TopFrom(m, k) == Dg(m, k) + Base * Dg(m, k + 1) + Base * Base * Dg(m, k + 2)

\* the lowest position the estimate of a quotient digit by b reads
TopAt(b) == IF Len(b) = 1 THEN 1 ELSE Len(b) - 1

\* the quotient digit lies between the quotients of the leading digits
\* of rem by those of b, rounded up, and by those of b
QHigh(rem, b) == Min(Base - 1, TopFrom(rem, TopAt(b)) \div TopFrom(b, TopAt(b)))
QLow(rem, b) ==
    IF Len(b) = 1 THEN QHigh(rem, b)
    ELSE TopFrom(rem, TopAt(b)) \div (TopFrom(b, TopAt(b)) + 1)

\* the largest digit q with b * q <= rem
QDigit(rem, b) ==
    CHOOSE q \in QLow(rem, b)..QHigh(rem, b) :
        /\ MagCmp(MagMulDigit(b, q), rem) <= 0
        /\ q = Base - 1 \/ MagCmp(MagMulDigit(b, q + 1), rem) > 0

\* one step of the long division by b: rem is the next digit joined to
\* the remainder of the higher digits, q the quotient of those
DivOut(q, rem, b, digit) ==
    <<Strip(<<digit>> \o q), MagSub(rem, MagMulDigit(b, digit))>>

DivStepDef(q, rem, b) == Wide("DivOut", <<q, rem, b, QDigit(rem, b)>>)

\* long division of the digits of a from position i down, k of them, by
\* b, from the quotient and remainder st of the digits above; by halves
DivIterDef(a, b, st, i, k) ==
    IF k = 1 THEN Wide("DivStep", <<st[1], Strip(<<a[i]>> \o st[2]), b>>)
    ELSE Wide("DivIter", <<a, b, Wide("DivIter", <<a, b, st, i, k \div 2>>),
                           i - k \div 2, k - k \div 2>>)

\* quotient and remainder of a by b # 0
MagDivModDef(a, b) ==
    IF a = <<>> THEN <<<<>>, <<>>>>
    ELSE IF FitsInt(a) /\ FitsInt(b)
    THEN <<ToMag(MagInt(a) \div MagInt(b)), ToMag(MagInt(a) % MagInt(b))>>
    ELSE Wide("DivIter", <<a, b, <<<<>>, <<>>>>, Len(a), Len(a)>>)

\* one step of Euclid's algorithm on the pair p; a pair whose second
\* component is zero stays as it is
GcdStep(p) ==
    IF p[2] = <<>> THEN p ELSE <<p[2], Wide("MagDivMod", <<p[1], p[2]>>)[2]>>

\* k steps of Euclid's algorithm on the pair p, by halves
GcdIterDef(p, k) ==
    IF p[2] = <<>> \/ k = 0 THEN p
    ELSE IF k = 1 THEN GcdStep(p)
    ELSE Wide("GcdIter", <<Wide("GcdIter", <<p, k \div 2>>), k - k \div 2>>)

\* Euclid's algorithm ends within five steps for each decimal digit of b
MagGcd(a, b) == Wide("GcdIter", <<<<a, b>>, 15 * Len(b) + 1>>)[1]

\* sign * n / d for magnitudes in lowest terms
Lower(sign, n, d) ==
    IF FitsInt(n) /\ FitsInt(d) THEN <<sign * MagInt(n), MagInt(d)>>
    ELSE <<sign, n, d>>

ReducedDef(sign, n, d, g) ==
    Wide("Lower", <<sign, Wide("MagDivMod", <<n, g>>)[1], Wide("MagDivMod", <<d, g>>)[1]>>)

\* the rational sign * n / d in lowest terms
MakeDef(sign, n, d) ==
    IF n = <<>> THEN <<0, 1>> ELSE Wide("Reduced", <<sign, n, d, MagGcd(n, d)>>)

\* sign and magnitude of x + y for signed magnitudes
SignedAdd(sx, mx, sy, my) ==
    IF sx = 0 THEN <<sy, my>>
    ELSE IF sy = 0 THEN <<sx, mx>>
    ELSE IF sx = sy THEN <<sx, MagAdd(mx, my)>>
    ELSE IF MagCmp(mx, my) = 0 THEN <<0, <<>>>>
    ELSE IF MagCmp(mx, my) > 0 THEN <<sx, MagSub(mx, my)>>
    ELSE <<sy, MagSub(my, mx)>>

IsSmall(a) == Len(a) = 2 /\ Abs(a[1]) <= Small /\ a[2] <= Small
SignOf(a) == IF Len(a) = 2 THEN Sign(a[1]) ELSE a[1]
NumOf(a) == IF Len(a) = 2 THEN ToMag(Abs(a[1])) ELSE a[2]
DenOf(a) == IF Len(a) = 2 THEN ToMag(a[2]) ELSE a[3]

MakeSignedDef(x, d) == Wide("Make", <<x[1], x[2], d>>)

\* a + sb * |b|
WideAdd(a, sb, b) ==
    Wide("MakeSigned",
         <<Wide("SignedAdd", <<SignOf(a), Wide("MagMul", <<NumOf(a), DenOf(b)>>),
                               sb, Wide("MagMul", <<NumOf(b), DenOf(a)>>)>>),
           Wide("MagMul", <<DenOf(a), DenOf(b)>>)>>)

WideMul(a, b) ==
    Wide("Make", <<SignOf(a) * SignOf(b), Wide("MagMul", <<NumOf(a), NumOf(b)>>),
                   Wide("MagMul", <<DenOf(a), DenOf(b)>>)>>)

WideDiv(a, b) ==
    Wide("Make", <<SignOf(a) * SignOf(b), Wide("MagMul", <<NumOf(a), DenOf(b)>>),
                   Wide("MagMul", <<DenOf(a), NumOf(b)>>)>>)

WideTrunc(a) == a[1] * MagInt(Wide("MagDivMod", <<a[2], a[3]>>)[1])

Wide(f, x) ==
    CASE f = "MagMul" -> MagMulDef(x[1], x[2])
      [] f = "DivOut" -> DivOut(x[1], x[2], x[3], x[4])
      [] f = "DivStep" -> DivStepDef(x[1], x[2], x[3])
      [] f = "DivIter" -> DivIterDef(x[1], x[2], x[3], x[4], x[5])
      [] f = "MagDivMod" -> MagDivModDef(x[1], x[2])
      [] f = "GcdIter" -> GcdIterDef(x[1], x[2])
      [] f = "Lower" -> Lower(x[1], x[2], x[3])
      [] f = "Reduced" -> ReducedDef(x[1], x[2], x[3], x[4])
      [] f = "Make" -> MakeDef(x[1], x[2], x[3])
      [] f = "SignedAdd" -> SignedAdd(x[1], x[2], x[3], x[4])
      [] f = "MakeSigned" -> MakeSignedDef(x[1], x[2])
      [] f = "RAdd" -> WideAdd(x[1], SignOf(x[2]), x[2])
      [] f = "RSub" -> WideAdd(x[1], -SignOf(x[2]), x[2])
      [] f = "RMul" -> WideMul(x[1], x[2])
      [] f = "RDiv" -> WideDiv(x[1], x[2])
      [] f = "RLt" -> SignOf(WideAdd(x[1], -SignOf(x[2]), x[2])) < 0
      [] f = "RLe" -> SignOf(WideAdd(x[1], -SignOf(x[2]), x[2])) <= 0
      [] f = "RTrunc" -> WideTrunc(x[1])

\* the operations on rationals: small operands are handled by machine
\* arithmetic, others by Wide; p is the pair of the operands
AddPair(p) == IF IsSmall(p[1]) /\ IsSmall(p[2])
              THEN Norm(p[1][1] * p[2][2] + p[2][1] * p[1][2], p[1][2] * p[2][2])
              ELSE Wide("RAdd", p)
SubPair(p) == IF IsSmall(p[1]) /\ IsSmall(p[2])
              THEN Norm(p[1][1] * p[2][2] - p[2][1] * p[1][2], p[1][2] * p[2][2])
              ELSE Wide("RSub", p)
MulPair(p) == IF IsSmall(p[1]) /\ IsSmall(p[2])
              THEN Norm(p[1][1] * p[2][1], p[1][2] * p[2][2])
              ELSE Wide("RMul", p)
DivPair(p) == IF IsSmall(p[1]) /\ IsSmall(p[2])
              THEN Norm(p[1][1] * p[2][2], p[1][2] * p[2][1])
              ELSE Wide("RDiv", p)
LtPair(p)  == IF IsSmall(p[1]) /\ IsSmall(p[2])
              THEN p[1][1] * p[2][2] < p[2][1] * p[1][2]
              ELSE Wide("RLt", p)
LePair(p)  == IF IsSmall(p[1]) /\ IsSmall(p[2])
              THEN p[1][1] * p[2][2] <= p[2][1] * p[1][2]
              ELSE Wide("RLe", p)
\* Python's int(x): truncation toward zero
TruncOf(p)  == IF Len(p[1]) = 2
               THEN (IF p[1][1] >= 0 THEN p[1][1] \div p[1][2] ELSE -((-p[1][1]) \div p[1][2]))
               ELSE Wide("RTrunc", p)

R(n)        == <<n, 1>>
Zero        == R(0)
RAdd(a, b)  == Only({AddPair(p) : p \in {<<a, b>>}})
RSub(a, b)  == Only({SubPair(p) : p \in {<<a, b>>}})
RMul(a, b)  == Only({MulPair(p) : p \in {<<a, b>>}})
RDiv(a, b)  == Only({DivPair(p) : p \in {<<a, b>>}})
RLt(a, b)   == Only({LtPair(p) : p \in {<<a, b>>}})
RLe(a, b)   == Only({LePair(p) : p \in {<<a, b>>}})
RGt(a, b)   == RLt(b, a)
RGe(a, b)   == RLe(b, a)
RScale(k, a) == RMul(R(k), a)
RTrunc(a)   == Only({TruncOf(p) : p \in {<<a>>}})

RECURSIVE RSum(_)
RSum(s) == IF s = <<>> THEN Zero ELSE RAdd(Head(s), RSum(Tail(s)))

\* a set of n-v pairs listed in a fixed order (dict iteration)
RECURSIVE SetToSeq(_)
SetToSeq(S) ==
    IF S = {} THEN <<>>
    ELSE LET x == CHOOSE y \in S : TRUE IN <<x>> \o SetToSeq(S \ {x})

None == <<>>
Some(x) == <<x>>

(***************************************************************************)
(* Position  (portfolio.py 7-32)                                           *)
(***************************************************************************)
Position(symbol, shares, entry_price, entry_date) ==
    [symbol |-> symbol, shares |-> shares,
     entry_price |-> entry_price, entry_date |-> entry_date]

cost_basis(pos) == RScale(pos.shares, pos.entry_price)

current_value(pos, current_price) == RScale(pos.shares, current_price)

(***************************************************************************)
(* Portfolio  (portfolio.py 35-170)                                        *)
(***************************************************************************)
NoPositions == [s \in {} |-> 0]

Portfolio(initial_cash) ==
    [initial_cash |-> initial_cash,
     cash |-> initial_cash,
     positions |-> NoPositions,
     equity_history |-> <<>>,
     cash_history |-> <<>>,
     position_value_history |-> <<>>,
     dates |-> <<>>]

position_value(p) ==
    LET syms == SetToSeq(DOMAIN p.positions)
    IN  RSum([k \in 1..Len(syms) |-> cost_basis(p.positions[syms[k]])])

total_value(p) == RAdd(p.cash, position_value(p))

\* PriceOf as it would be if a position were valued at its fill price
PriceOf_fill_price(current_prices, pos) == pos.entry_price

\* dict.get(pos.symbol, pos.entry_price)
PriceOf(current_prices, pos) ==
    IF pos.symbol \in DOMAIN current_prices
    THEN current_prices[pos.symbol] ELSE pos.entry_price

MarkToMarket(p, current_prices) ==
    LET syms == SetToSeq(DOMAIN p.positions)
    IN  RSum([k \in 1..Len(syms) |->
                current_value(p.positions[syms[k]],
                              PriceOf(current_prices, p.positions[syms[k]]))])

get_total_value(p, current_prices) == RAdd(p.cash, MarkToMarket(p, current_prices))

has_position(p, symbol) ==
    symbol \in DOMAIN p.positions /\ p.positions[symbol].shares > 0

SetPos(positions, symbol, pos) ==
    [s \in DOMAIN positions \cup {symbol} |->
        IF s = symbol THEN pos ELSE positions[s]]

DelPos(positions, symbol) ==
    [s \in DOMAIN positions \ {symbol} |-> positions[s]]

\* Portfolio.buy as it would be if it debited the cash before the check
buy_debit_first(p, symbol, shares, price, date, commission) ==
    LET cost == RAdd(RScale(shares, price), commission)
        debited == [p EXCEPT !.cash = RSub(p.cash, cost)]
    IN  IF RLt(debited.cash, Zero) THEN [ret |-> "False", p |-> debited]
        ELSE [ret |-> "True",
              p |-> [debited EXCEPT !.positions =
                       SetPos(p.positions, symbol,
                              Position(symbol, shares, price, date))]]

\* Portfolio.buy as it would be if the commission entered the average price
buy_commission_in_average(p, symbol, shares, price, date, commission) ==
    LET cost == RAdd(RScale(shares, price), commission)
        debited == [p EXCEPT !.cash = RSub(p.cash, cost)]
    IN  IF RGt(cost, p.cash) THEN [ret |-> "False", p |-> p]
        ELSE IF symbol \in DOMAIN p.positions
        THEN LET existing == p.positions[symbol]
                 total_shares == existing.shares + shares
                 total_cost == RAdd(cost_basis(existing), cost)
             IN  IF total_shares = 0
                 THEN [ret |-> "ZeroDivisionError", p |-> debited]
                 ELSE [ret |-> "True",
                       p |-> [debited EXCEPT !.positions =
                                SetPos(p.positions, symbol,
                                       Position(symbol, total_shares,
                                                RDiv(total_cost, R(total_shares)),
                                                existing.entry_date))]]
        ELSE [ret |-> "True",
              p |-> [debited EXCEPT !.positions =
                       SetPos(p.positions, symbol,
                              Position(symbol, shares, price, date))]]

\* Portfolio.buy: ret is "True", "False" or "ZeroDivisionError" (line 94,
\* raised after the cash was debited on line 88)
buy(p, symbol, shares, price, date, commission) ==
    LET cost == RAdd(RScale(shares, price), commission)
        debited == [p EXCEPT !.cash = RSub(p.cash, cost)]
    IN  IF RGt(cost, p.cash) THEN [ret |-> "False", p |-> p]
        ELSE IF symbol \in DOMAIN p.positions
        THEN LET existing == p.positions[symbol]
                 total_shares == existing.shares + shares
                 total_cost == RAdd(cost_basis(existing), RScale(shares, price))
             IN  IF total_shares = 0
                 THEN [ret |-> "ZeroDivisionError", p |-> debited]
                 ELSE [ret |-> "True",
                       p |-> [debited EXCEPT !.positions =
                                SetPos(p.positions, symbol,
                                       Position(symbol, total_shares,
                                                RDiv(total_cost, R(total_shares)),
                                                existing.entry_date))]]
        ELSE [ret |-> "True",
              p |-> [debited EXCEPT !.positions =
                       SetPos(p.positions, symbol,
                              Position(symbol, shares, price, date))]]

\* Portfolio.sell as it would be without the has_position check: a symbol
\* that is not held is sold short
sell_unchecked(p, symbol, shares, price, date, commission) ==
    LET requested == IF shares # None THEN shares[1] ELSE 0
        proceeds == RSub(RScale(requested, price), commission)
    IN  IF ~has_position(p, symbol)
        THEN [ret |-> Some(proceeds),
              p |-> [p EXCEPT !.cash = RAdd(p.cash, proceeds),
                              !.positions =
                                SetPos(p.positions, symbol,
                                       Position(symbol, -requested, price, date))]]
        ELSE
        LET position == p.positions[symbol]
            shares_to_sell == Min(IF shares # None THEN shares[1]
                                  ELSE position.shares, position.shares)
            sold == RSub(RScale(shares_to_sell, price), commission)
            credited == [p EXCEPT !.cash = RAdd(p.cash, sold)]
        IN  [ret |-> Some(RSub(sold, RScale(shares_to_sell, position.entry_price))),
             p |-> IF shares_to_sell >= position.shares
                   THEN [credited EXCEPT !.positions = DelPos(p.positions, symbol)]
                   ELSE [credited EXCEPT !.positions =
                           SetPos(p.positions, symbol,
                                  Position(symbol, position.shares - shares_to_sell,
                                           position.entry_price, position.entry_date))]]

\* Portfolio.sell as it would be without the clamp to the held quantity
sell_no_clamp(p, symbol, shares, price, date, commission) ==
    IF ~has_position(p, symbol) THEN [ret |-> None, p |-> p]
    ELSE
    LET position == p.positions[symbol]
        shares_to_sell == IF shares # None THEN shares[1] ELSE position.shares
        proceeds == RSub(RScale(shares_to_sell, price), commission)
        cost_basis_sold == RScale(shares_to_sell, position.entry_price)
        realized_pnl == RSub(proceeds, cost_basis_sold)
        credited == [p EXCEPT !.cash = RAdd(p.cash, proceeds)]
    IN  IF shares_to_sell >= position.shares
        THEN [ret |-> Some(realized_pnl),
              p |-> [credited EXCEPT !.positions = DelPos(p.positions, symbol)]]
        ELSE [ret |-> Some(realized_pnl),
              p |-> [credited EXCEPT !.positions =
                       SetPos(p.positions, symbol,
                              Position(symbol, position.shares - shares_to_sell,
                                       position.entry_price, position.entry_date))]]

\* Portfolio.sell: ret is None or Some(realized_pnl)
sell(p, symbol, shares, price, date, commission) ==
    IF ~has_position(p, symbol) THEN [ret |-> None, p |-> p]
    ELSE
    LET position == p.positions[symbol]
        requested == IF shares # None THEN shares[1] ELSE position.shares
        shares_to_sell == Min(requested, position.shares)
        proceeds == RSub(RScale(shares_to_sell, price), commission)
        cost_basis_sold == RScale(shares_to_sell, position.entry_price)
        realized_pnl == RSub(proceeds, cost_basis_sold)
        credited == [p EXCEPT !.cash = RAdd(p.cash, proceeds)]
    IN  IF shares_to_sell >= position.shares
        THEN [ret |-> Some(realized_pnl),
              p |-> [credited EXCEPT !.positions = DelPos(p.positions, symbol)]]
        ELSE [ret |-> Some(realized_pnl),
              p |-> [credited EXCEPT !.positions =
                       SetPos(p.positions, symbol,
                              Position(symbol, position.shares - shares_to_sell,
                                       position.entry_price, position.entry_date))]]

\* update_history as it would be if it valued positions at cost
update_history_at_cost(p, date, current_prices) ==
    LET pv == position_value(p)
        tv == RAdd(p.cash, pv)
    IN  [p EXCEPT !.dates = Append(@, date),
                  !.equity_history = Append(@, tv),
                  !.cash_history = Append(@, p.cash),
                  !.position_value_history = Append(@, pv)]

update_history(p, date, current_prices) ==
    LET pv == MarkToMarket(p, current_prices)
        tv == RAdd(p.cash, pv)
    IN  [p EXCEPT !.dates = Append(@, date),
                  !.equity_history = Append(@, tv),
                  !.cash_history = Append(@, p.cash),
                  !.position_value_history = Append(@, pv)]


get_equity_curve(p) ==
    [k \in 1..Len(p.dates) |-> <<p.dates[k], p.equity_history[k]>>]

\* pandas pct_change on one pair of consecutive values; <<1,0>>, <<-1,0>>
\* stand for +inf, -inf and <<0,0>> for NaN
PctChange(prev, cur) ==
    IF prev[1] = 0
    THEN (IF cur[1] = 0 THEN <<0, 0>> ELSE IF cur[1] > 0 THEN <<1, 0>> ELSE <<-1, 0>>)
    ELSE RDiv(RSub(cur, prev), prev)

IsNaN(x) == x = <<0, 0>>

\* equity.pct_change().dropna(): the first entry is NaN and is dropped
get_returns(p) ==
    LET eq == get_equity_curve(p)
        all == [k \in 1..(IF Len(eq) = 0 THEN 0 ELSE Len(eq) - 1) |->
                  <<eq[k + 1][1], PctChange(eq[k][2], eq[k + 1][2])>>]
    IN  SelectSeq(all, LAMBDA e : ~IsNaN(e[2]))

(***************************************************************************)
(* Trade and BacktestResult  (trade.py)                                    *)
(***************************************************************************)
Trade(symbol, entry_date, entry_price, exit_date, exit_price, shares, side, entry_commission, exit_commission) ==
    [symbol |-> symbol, entry_date |-> entry_date, entry_price |-> entry_price,
     exit_date |-> exit_date, exit_price |-> exit_price, shares |-> shares,
     side |-> side, entry_commission |-> entry_commission,
     exit_commission |-> exit_commission]

gross_pnl(t) ==
    IF t.side = "long"
    THEN RScale(t.shares, RSub(t.exit_price, t.entry_price))
    ELSE RScale(t.shares, RSub(t.entry_price, t.exit_price))

commission_paid(t) == RAdd(t.entry_commission, t.exit_commission)

net_pnl(t) == RSub(gross_pnl(t), commission_paid(t))

is_winner(t) == RGt(net_pnl(t), Zero)

\* trade.py 25-28: the days between entry and exit (timestamps count days)
holding_days(t) == t.exit_date - t.entry_date

\* trade.py 120-183: the statistics of a BacktestResult, as functions of
\* its list of trades
num_trades(ts) == Len(ts)

winning_trades(ts) == SelectSeq(ts, LAMBDA t : is_winner(t))

losing_trades(ts) == SelectSeq(ts, LAMBDA t : ~is_winner(t))

num_winners(ts) == Len(winning_trades(ts))

num_losers(ts) == Len(losing_trades(ts))

NetPnls(ts) == [i \in 1..Len(ts) |-> net_pnl(ts[i])]

RAbs(a) == IF RLt(a, Zero) THEN RSub(Zero, a) ELSE a

\* win_rate as it would be if it counted the losing trades
win_rate_of_losers(ts) ==
    IF num_trades(ts) = 0 THEN Zero
    ELSE RDiv(R(num_losers(ts)), R(num_trades(ts)))

win_rate(ts) ==
    IF num_trades(ts) = 0 THEN Zero
    ELSE RDiv(R(num_winners(ts)), R(num_trades(ts)))

avg_win(ts) ==
    IF winning_trades(ts) = <<>> THEN Zero
    ELSE RDiv(RSum(NetPnls(winning_trades(ts))), R(Len(winning_trades(ts))))

avg_loss(ts) ==
    IF losing_trades(ts) = <<>> THEN Zero
    ELSE RDiv(RSum(NetPnls(losing_trades(ts))), R(Len(losing_trades(ts))))

\* profit_factor as it would be if it were infinite whenever nothing was
\* lost
profit_factor_no_wins_test(ts) ==
    LET gross_wins == RSum(NetPnls(winning_trades(ts)))
        gross_losses == RAbs(RSum(NetPnls(losing_trades(ts))))
    IN  IF gross_losses = Zero THEN <<1, 0>>
        ELSE RDiv(gross_wins, gross_losses)

profit_factor(ts) ==
    LET gross_wins == RSum(NetPnls(winning_trades(ts)))
        gross_losses == RAbs(RSum(NetPnls(losing_trades(ts))))
    IN  IF gross_losses = Zero
        THEN (IF RGt(gross_wins, Zero) THEN <<1, 0>> ELSE Zero)
        ELSE RDiv(gross_wins, gross_losses)

RECURSIVE Sum(_)
Sum(s) == IF s = <<>> THEN 0 ELSE Head(s) + Sum(Tail(s))

avg_holding_period(ts) ==
    IF ts = <<>> THEN Zero
    ELSE RDiv(R(Sum([i \in 1..Len(ts) |-> holding_days(ts[i])])), R(Len(ts)))

\* the metrics collaborator is a pure function of the returns series; its
\* output is represented by the series it was given
calculate_all_metrics(returns) == [empty |-> FALSE, returns |-> returns]

EmptyMetrics == [empty |-> TRUE, returns |-> <<>>]

BacktestResult(strategy_name, symbol, start_date, end_date, initial_capital, final_capital, equity_curve, trades, metrics) ==
    [strategy_name |-> strategy_name, symbol |-> symbol,
     start_date |-> start_date, end_date |-> end_date,
     initial_capital |-> initial_capital, final_capital |-> final_capital,
     equity_curve |-> equity_curve, trades |-> trades, metrics |-> metrics]

(***************************************************************************)
(* Backtester  (engine.py)                                                 *)
(*                                                                         *)
(* A Backtester object b is a record of its fields.  self.trades is a      *)
(* reference into the heap of Python list objects (id -> list contents),   *)
(* so that a BacktestResult holding the same list object is visible as     *)
(* such.                                                                   *)
(***************************************************************************)
NoEntries == [s \in {} |-> 0]

Backtester(initial_capital, commission_pct, slippage_pct, position_size_pct, list_id) ==
    [initial_capital |-> initial_capital,
     commission_pct |-> commission_pct,
     slippage_pct |-> slippage_pct,
     position_size_pct |-> position_size_pct,
     portfolio |-> None,
     trades |-> list_id,
     open_trade_entry |-> NoEntries]

\* calculate_shares as it would be if it left the commission out of the
\* cost of a share
calculate_shares_no_commission(b, price, available_capital) ==
    IF RLe(price, Zero) \/ RLe(available_capital, Zero) THEN 0
    ELSE RTrunc(RDiv(available_capital, price))

calculate_shares(b, price, available_capital) ==
    IF RLe(price, Zero) \/ RLe(available_capital, Zero) THEN 0
    ELSE RTrunc(RDiv(available_capital,
                     RMul(price, RAdd(R(1), b.commission_pct))))

\* calculate_commission as it would be if it left the price out of the
\* trade value
calculate_commission_per_share(b, shares, price) ==
    RMul(R(shares), b.commission_pct)

calculate_commission(b, shares, price) ==
    RMul(RScale(shares, price), b.commission_pct)

\* apply_slippage as it would be if a sale, too, paid the slippage on top
apply_slippage_always_up(b, price, side) ==
    RMul(price, RAdd(R(1), b.slippage_pct))

\* apply_slippage as it would be if only purchases slipped
apply_slippage_buy_only(b, price, side) ==
    IF side = "buy" THEN RMul(price, RAdd(R(1), b.slippage_pct)) ELSE price

apply_slippage(b, price, side) ==
    IF side = "buy"
    THEN RMul(price, RAdd(R(1), b.slippage_pct))
    ELSE RMul(price, RSub(R(1), b.slippage_pct))

EntryInfo(entry_date, entry_price, shares, entry_commission) ==
    [entry_date |-> entry_date, entry_price |-> entry_price,
     shares |-> shares, entry_commission |-> entry_commission]

\* the order a buy signal places: the price after slippage, the number of
\* shares and the commission (engine.py 105-112)
Order(execution_price, shares, commission) ==
    [execution_price |-> execution_price, shares |-> shares,
     commission |-> commission]

Sized(b, execution_price, shares) ==
    Order(execution_price, shares, calculate_commission(b, shares, execution_price))

Priced(b, execution_price) ==
    Only({Sized(b, execution_price, shares) :
            shares \in {calculate_shares(b, execution_price,
                                         RMul(b.portfolio[1].cash, b.position_size_pct))}})

BuyOrder(b, price) ==
    Only({Priced(b, execution_price) :
            execution_price \in {apply_slippage(b, price, "buy")}})

EntryOf(date, o) == EntryInfo(date, o.execution_price, o.shares, o.commission)

Unhandled(b) == [b |-> b, bought |-> None, rejected |-> FALSE]

\* the Portfolio.buy of the order o
Fill(b, symbol, date, o) ==
    buy(b.portfolio[1], symbol, o.shares, o.execution_price, date, o.commission)

\* lines 113-127 as they would be if they did not record the open entry
Bought_no_entry(b, symbol, date, o, r) ==
    [b |-> [b EXCEPT !.portfolio = Some(r.p)],
     bought |-> None, rejected |-> r.ret # "True"]

\* _process_buy_signal as it would be if it did not record the open entry
process_buy_signal_no_entry(b, symbol, date, price) ==
    IF has_position(b.portfolio[1], symbol) THEN Unhandled(b)
    ELSE Only({IF o.shares <= 0 THEN Unhandled(b)
               ELSE Only({Bought_no_entry(b, symbol, date, o, r) :
                            r \in {Fill(b, symbol, date, o)}}) :
                 o \in {BuyOrder(b, price)}})

\* lines 113-127 after an order that was not guarded by lines 102-103
Bought_no_guard(b, symbol, date, o, r) ==
    IF r.ret = "True"
    THEN [b |-> [b EXCEPT !.portfolio = Some(r.p),
                          !.open_trade_entry =
                              [s \in DOMAIN @ \cup {symbol} |->
                                 IF s = symbol THEN EntryOf(date, o) ELSE @[s]]],
          bought |-> Some(EntryOf(date, o)), rejected |-> FALSE]
    ELSE [b |-> b, bought |-> None, rejected |-> TRUE]

\* _process_buy_signal as it would be without the guard of lines 102-103
process_buy_signal_no_guard(b, symbol, date, price) ==
    Only({IF o.shares <= 0 THEN Unhandled(b)
          ELSE Only({Bought_no_guard(b, symbol, date, o, r) :
                       r \in {Fill(b, symbol, date, o)}}) :
            o \in {BuyOrder(b, price)}})

\* lines 113-127 as they would be if the open entry were recorded without
\* regard to the outcome of Portfolio.buy
Bought_records_rejected(b, symbol, date, o, r) ==
    [b |-> [b EXCEPT !.portfolio = Some(r.p),
                     !.open_trade_entry =
                         [s \in DOMAIN @ \cup {symbol} |->
                            IF s = symbol THEN EntryOf(date, o) ELSE @[s]]],
     bought |-> IF r.ret = "True" THEN Some(EntryOf(date, o)) ELSE None,
     rejected |-> r.ret # "True"]

\* lines 113-127: the Backtester after Portfolio.buy returned r
Bought(b, symbol, date, o, r) ==
    IF r.ret = "True"
    THEN [b |-> [b EXCEPT !.portfolio = Some(r.p),
                          !.open_trade_entry =
                              [s \in DOMAIN @ \cup {symbol} |->
                                 IF s = symbol THEN EntryOf(date, o) ELSE @[s]]],
          bought |-> Some(EntryOf(date, o)), rejected |-> FALSE]
    ELSE [b |-> [b EXCEPT !.portfolio = Some(r.p)],
          bought |-> None, rejected |-> TRUE]

\* _process_buy_signal: the Backtester after the call, and what the call
\* did (bought: the open-entry record written on success)
process_buy_signal(b, symbol, date, price) ==
    IF has_position(b.portfolio[1], symbol) THEN Unhandled(b)
    ELSE Only({IF o.shares <= 0 THEN Unhandled(b)
               ELSE Only({Bought(b, symbol, date, o, r) :
                            r \in {Fill(b, symbol, date, o)}}) :
                 o \in {BuyOrder(b, price)}})

\* the order a sell signal places for the whole position (engine.py
\* 139-142)
SellOrder(b, symbol, price) ==
    Only({Sized(b, execution_price, b.portfolio[1].positions[symbol].shares) :
            execution_price \in {apply_slippage(b, price, "sell")}})

\* the Trade of lines 154-164 as it would be if it dropped the commission
\* of the entry
ClosedTrade_no_entry_commission(b, symbol, date, o) ==
    Trade(symbol, b.open_trade_entry[symbol].entry_date,
          b.open_trade_entry[symbol].entry_price,
          date, o.execution_price, o.shares, "long", Zero, o.commission)

\* the Trade of lines 154-164
ClosedTrade(b, symbol, date, o) ==
    Trade(symbol, b.open_trade_entry[symbol].entry_date,
          b.open_trade_entry[symbol].entry_price,
          date, o.execution_price, o.shares, "long",
          b.open_trade_entry[symbol].entry_commission, o.commission)

\* lines 144-166 as they would be if the open entry were left in place
Sold_keeps_entry(b, heap, symbol, date, o, r) ==
    IF symbol \in DOMAIN b.open_trade_entry
    THEN [b |-> [b EXCEPT !.portfolio = Some(r.p)],
          heap |-> [heap EXCEPT ![b.trades] =
                                    Append(@, ClosedTrade(b, symbol, date, o))],
          sold |-> r.ret # None /\ symbol \notin DOMAIN r.p.positions]
    ELSE [b |-> [b EXCEPT !.portfolio = Some(r.p)], heap |-> heap,
          sold |-> r.ret # None /\ symbol \notin DOMAIN r.p.positions]

\* lines 144-166: the Backtester and the heap after Portfolio.sell
\* returned r
Sold(b, heap, symbol, date, o, r) ==
    IF symbol \in DOMAIN b.open_trade_entry
    THEN [b |-> [b EXCEPT !.portfolio = Some(r.p),
                          !.open_trade_entry =
                              [s \in DOMAIN @ \ {symbol} |-> @[s]]],
          heap |-> [heap EXCEPT ![b.trades] =
                                    Append(@, ClosedTrade(b, symbol, date, o))],
          sold |-> r.ret # None /\ symbol \notin DOMAIN r.p.positions]
    ELSE [b |-> [b EXCEPT !.portfolio = Some(r.p)], heap |-> heap,
          sold |-> r.ret # None /\ symbol \notin DOMAIN r.p.positions]

\* _process_sell_signal: the Backtester and the heap after the call, and
\* whether Portfolio.sell closed a position
process_sell_signal(b, heap, symbol, date, price) ==
    IF ~has_position(b.portfolio[1], symbol)
    THEN [b |-> b, heap |-> heap, sold |-> FALSE]
    ELSE Only({Only({Sold(b, heap, symbol, date, o, r) :
                       r \in {sell(b.portfolio[1], symbol, None,
                                   o.execution_price, date, o.commission)}}) :
                 o \in {SellOrder(b, symbol, price)}})

(***************************************************************************)
(* Bounds and input domains                                                *)
(***************************************************************************)
MaxBars == 3          \* longest price series of a single run
MaxBarsRerun == 1     \* longest price series where results are retained
MaxStrategies == 2    \* longest strategy list given to run_multiple

Insts == {1, 2}       \* Backtester objects
Callers == {1, 2, 3}  \* callers of the engine's API

Closes == {R(1), R(2)}    \* close prices of the bars

Config(initial_capital, commission_pct, slippage_pct, position_size_pct) ==
    [initial_capital |-> initial_capital, commission_pct |-> commission_pct,
     slippage_pct |-> slippage_pct, position_size_pct |-> position_size_pct]

\* constructor arguments of the Backtester objects (engine.py 11-21): with
\* and without costs, investing all, half or (beyond the cash) twice the
\* cash, or with cash that buys no share
Configs ==
    {Config(R(1), <<1, 10>>, <<1, 10>>, R(1)),
     Config(R(10), <<1, 10>>, <<1, 10>>, R(1)),
     Config(R(10), Zero, Zero, R(1)),
     Config(R(10), <<1, 10>>, Zero, <<1, 2>>),
     Config(R(10), <<1, 10>>, <<1, 10>>, R(2))}

SignalValues == {-1, 0, 1}

\* A strategy is its name and the signal series generate_signals returns: a
\* value per timestamp of its index, which may lack timestamps.  run reads
\* the series one timestamp per loop iteration (line 67); the value a
\* timestamp carries is drawn when the loop reads it and recorded in sigs.
Strategy(name) == [name |-> name, sigs |-> [d \in {} |-> 0]]

\* what the series holds at one timestamp: nothing, or a signal value
SignalInputs == {None} \cup {Some(v) : v \in SignalValues}

Reveal(strategy, date, sig) ==
    IF sig = None THEN strategy
    ELSE [strategy EXCEPT !.sigs =
            [d \in DOMAIN @ \cup {date} |-> IF d = date THEN sig[1] ELSE @[d]]]

Bar(date, close) == [date |-> date, close |-> close]

\* price frames of n bars on the timestamps first+1 .. first+n
Frames(first, n) ==
    {[columns |-> <<"close", "volume">>,
      bars |-> [k \in 1..n |-> Bar(first + k, cl[k])]] :
        cl \in [1..n -> Closes]}

\* a frame of one bar that lacks the close column
NoCloseFrame == [columns |-> <<"volume">>, bars |-> <<Bar(1, R(1))>>]

\* the frames given to run: up to maxbars bars (none: an empty frame), or
\* no close column
Data(maxbars) == UNION {Frames(0, n) : n \in 0..maxbars} \cup {NoCloseFrame}

Dates(data) == {data.bars[k].date : k \in 1..Len(data.bars)}

HasColumn(data, name) == \E i \in 1..Len(data.columns) : data.columns[i] = name

\* DataFrame.empty: no rows (the frames above always have a column)
empty(data) == Len(data.bars) = 0

SymbolArgs == {Some("AAA")}     \* the symbol argument of a single run

(***************************************************************************)
(* State                                                                   *)
(***************************************************************************)
VARIABLES
    bt,        \* bt[k]: the fields of Backtester object k
    heap,      \* the trade lists: list id -> contents
    call,      \* call[c]: the API call caller c is in, with its locals,
               \* and the results the caller holds
    pf,        \* a Portfolio object driven directly through its API
    lastCall   \* the last Portfolio API call on pf: name, arguments, return

vars == <<bt, heap, call, pf, lastCall>>

EmptyDict == [n \in {} |-> 0]
NoStrategy == Strategy("")
NoData == [columns |-> <<>>, bars |-> <<>>]

\* the locals of walk_forward_analysis: its arguments, start_idx and the
\* results list, of which the last WalkKept entries are tracked (more: the
\* list holds earlier entries as well)
NoWalk ==
    [data |-> NoData, train_size |-> 0, test_size |-> 0, step_size |-> 0,
     start_idx |-> 0, results |-> <<>>, more |-> FALSE]

\* the locals are gone when the call raises; its arguments stay on record
WalkRaised(wf) ==
    [wf EXCEPT !.start_idx = 0, !.results = <<>>, !.more = FALSE]

IdleCall(inst) ==
    [op |-> "idle", pc |-> "idle", self |-> inst,
     strategy |-> NoStrategy, data |-> NoData, symbol |-> "", idx |-> 0,
     buys |-> <<>>, sells |-> 0, rejected |-> 0,
     result |-> None,
     strategies |-> <<>>, k |-> 0, results |-> EmptyDict,
     kept |-> EmptyDict, wf |-> NoWalk]

NoCall == [op |-> "none", args |-> <<>>, ret |-> <<>>]

\* list ids referenced from a Backtester, a returned result or a held result
Refs(b, cl) ==
    {b[k].trades : k \in Insts}
    \cup UNION {{cl[c].result[i].trades : i \in DOMAIN cl[c].result} : c \in Callers}
    \cup UNION {{cl[c].results[n].trades : n \in DOMAIN cl[c].results} : c \in Callers}
    \cup UNION {{cl[c].kept[n].trades : n \in DOMAIN cl[c].kept} : c \in Callers}
    \cup UNION {{cl[c].wf.results[i].trades : i \in DOMAIN cl[c].wf.results} :
                   c \in Callers}

\* garbage collection of unreferenced lists
Collect(h, b, cl) == [i \in DOMAIN h \cap Refs(b, cl) |-> h[i]]

NewId(h) == CHOOSE i \in 1..(Cardinality(DOMAIN h) + 1) : i \notin DOMAIN h

InitWith(configs) ==
    /\ \E cfg \in configs :
         bt = [k \in Insts |->
                 Backtester(cfg.initial_capital, cfg.commission_pct,
                            cfg.slippage_pct, cfg.position_size_pct, k)]
    /\ heap = [k \in Insts |-> <<>>]
    /\ call = [c \in Callers |-> IdleCall(1)]
    /\ pf = Portfolio(Zero)
    /\ lastCall = NoCall

InitEngine == InitWith(Configs)

Pf(k) == bt[k].portfolio[1]

(***************************************************************************)
(* Backtester.run  (engine.py 46-98)                                       *)
(***************************************************************************)
\* run as it would be if the reset emptied the existing trade list in place
\* (self.trades.clear()) instead of binding a new list
RunBegin_clear_in_place(b, h, cl, strategy, data, symbol) ==
    IF empty(data) \/ ~HasColumn(data, "close")
    THEN [b |-> b, h |-> h,
          cl |-> [cl EXCEPT !.pc = "raised", !.strategy = strategy,
                            !.data = data, !.symbol = "", !.idx = 0,
                            !.buys = <<>>, !.sells = 0, !.rejected = 0,
                            !.result = None, !.results = EmptyDict,
                            !.wf = WalkRaised(@)]]
    ELSE [b |-> [b EXCEPT !.portfolio = Some(Portfolio(b.initial_capital)),
                          !.open_trade_entry = NoEntries],
          h |-> [h EXCEPT ![b.trades] = <<>>],
          cl |-> [cl EXCEPT !.pc = "loop", !.strategy = strategy,
                            !.data = data,
                            !.symbol = IF symbol = None \/ symbol = Some("")
                                       THEN "UNKNOWN" ELSE symbol[1],
                            !.idx = 0, !.buys = <<>>, !.sells = 0,
                            !.rejected = 0, !.result = None]]

\* run as it would be if it reset its fields before validating the frame
RunBegin_reset_first(b, h, cl, strategy, data, symbol) ==
    LET id == NewId(h)
        b1 == [b EXCEPT !.portfolio = Some(Portfolio(b.initial_capital)),
                        !.trades = id,
                        !.open_trade_entry = NoEntries]
        h1 == [i \in DOMAIN h \cup {id} |-> IF i = id THEN <<>> ELSE h[i]]
    IN  IF empty(data) \/ ~HasColumn(data, "close")
        THEN [b |-> b1, h |-> h1,
              cl |-> [cl EXCEPT !.pc = "raised", !.strategy = strategy,
                                !.data = data, !.symbol = "", !.idx = 0,
                                !.buys = <<>>, !.sells = 0, !.rejected = 0,
                                !.result = None, !.results = EmptyDict,
                            !.wf = WalkRaised(@)]]
        ELSE [b |-> b1, h |-> h1,
              cl |-> [cl EXCEPT !.pc = "loop", !.strategy = strategy,
                                !.data = data,
                                !.symbol = IF symbol = None \/ symbol = Some("")
                                           THEN "UNKNOWN" ELSE symbol[1],
                                !.idx = 0, !.buys = <<>>, !.sells = 0,
                                !.rejected = 0, !.result = None]]

\* lines 53-63: validation, then the reset of the three fields.  Gives the
\* Backtester, the heap and the caller's locals at the head of the loop, or
\* the raise.
RunBegin(b, h, cl, strategy, data, symbol) ==
    IF empty(data) \/ ~HasColumn(data, "close")
    THEN [b |-> b, h |-> h,
          cl |-> [cl EXCEPT !.pc = "raised", !.strategy = strategy,
                            !.data = data, !.symbol = "", !.idx = 0,
                            !.buys = <<>>, !.sells = 0, !.rejected = 0,
                            !.result = None, !.results = EmptyDict,
                            !.wf = WalkRaised(@)]]
    ELSE LET id == NewId(h)
         IN  [b |-> [b EXCEPT !.portfolio = Some(Portfolio(b.initial_capital)),
                              !.trades = id,
                              !.open_trade_entry = NoEntries],
              h |-> [i \in DOMAIN h \cup {id} |-> IF i = id THEN <<>> ELSE h[i]],
              cl |-> [cl EXCEPT !.pc = "loop", !.strategy = strategy,
                                !.data = data,
                                !.symbol = IF symbol = None \/ symbol = Some("")
                                           THEN "UNKNOWN" ELSE symbol[1],
                                !.idx = 0, !.buys = <<>>, !.sells = 0,
                                !.rejected = 0, !.result = None]]

\* the signal lookup as it would be if an absent timestamp read as a buy
SignalAt_absent_is_buy(strategy, date) ==
    IF date \in DOMAIN strategy.sigs THEN strategy.sigs[date] ELSE 1

\* line 67: signals.loc[date] if date in signals.index else 0
SignalAt(strategy, date) ==
    IF date \in DOMAIN strategy.sigs THEN strategy.sigs[date] ELSE 0

\* line 65: the row the loop is at
CurrentRow(cl) == cl.data.bars[cl.idx + 1]

\* line 67: the signal of the row, the series holding sig at its timestamp
BarSignal(cl, sig) ==
    SignalAt(Reveal(cl.strategy, CurrentRow(cl).date, sig), CurrentRow(cl).date)

\* what a bar's signal handling leaves: the Backtester, the heap, and what
\* the handler did
Handled(b, h, bought, rejected, sold) ==
    [b |-> b, h |-> h, bought |-> bought, rejected |-> rejected, sold |-> sold]

AfterBuy(h, rb) == Handled(rb.b, h, rb.bought, rb.rejected, FALSE)

AfterSell(rs) == Handled(rs.b, rs.heap, None, FALSE, rs.sold)

\* lines 70-73: the dispatch on the signal
ProcessSignal(b, h, cl, row, signal) ==
    IF signal = 1
    THEN Only({AfterBuy(h, rb) :
                 rb \in {process_buy_signal(b, cl.symbol, row.date, row.close)}})
    ELSE IF signal = -1
    THEN Only({AfterSell(rs) :
                 rs \in {process_sell_signal(b, h, cl.symbol, row.date, row.close)}})
    ELSE Handled(b, h, None, FALSE, FALSE)

\* line 75: the history entry of the bar, and the loop's next position
EndBar(cl, sig, row, r) ==
    [b |-> [r.b EXCEPT !.portfolio =
              Some(update_history(r.b.portfolio[1], row.date,
                                  [s \in {cl.symbol} |-> row.close]))],
     h |-> r.h,
     cl |-> [cl EXCEPT !.idx = @ + 1,
                       !.strategy = Reveal(@, row.date, sig),
                       !.buys = @ \o r.bought,
                       !.rejected = IF r.rejected THEN @ + 1 ELSE @,
                       !.sells = IF r.sold THEN @ + 1 ELSE @]]

\* lines 65-75: one iteration of the loop over the bars, on a timestamp
\* where the signal series holds sig
RunBar(b, h, cl, sig) ==
    Only({EndBar(cl, sig, CurrentRow(cl), r) :
            r \in {ProcessSignal(b, h, cl, CurrentRow(cl), BarSignal(cl, sig))}})

FinalBar(cl) == cl.data.bars[Len(cl.data.bars)]

\* MetricsOf as it would be if returns that are all zero counted as none
MetricsOf_zero_is_none(returns) ==
    IF \E k \in DOMAIN returns : returns[k][2] # Zero
    THEN calculate_all_metrics(returns) ELSE EmptyMetrics

\* lines 84-86: the metrics of the returns, none for an empty series
MetricsOf(returns) ==
    IF Len(returns) > 0 THEN calculate_all_metrics(returns) ELSE EmptyMetrics

\* lines 88-98: the result of the run of b that ends with portfolio p1 and
\* the trade list trades
ResultOf(b, cl, p1, trades) ==
    BacktestResult(cl.strategy.name, cl.symbol,
                   cl.data.bars[1].date, FinalBar(cl).date,
                   b.initial_capital, total_value(p1),
                   get_equity_curve(p1), trades, MetricsOf(get_returns(p1)))

NotLiquidated(b, h) == [b |-> b, heap |-> h, sold |-> FALSE]

\* the forced sale as it would be if it were dated on the first bar
Liquidate_on_first_bar(b, h, cl) ==
    IF has_position(b.portfolio[1], cl.symbol)
    THEN process_sell_signal(b, h, cl.symbol, cl.data.bars[1].date,
                             FinalBar(cl).close)
    ELSE NotLiquidated(b, h)

\* lines 77-81: the forced sale of a position that is still open
Liquidate(b, h, cl) ==
    IF has_position(b.portfolio[1], cl.symbol)
    THEN process_sell_signal(b, h, cl.symbol, FinalBar(cl).date,
                             FinalBar(cl).close)
    ELSE NotLiquidated(b, h)

\* lines 83-98: the result is assembled and returned
Assemble(b, cl, rs) ==
    [b |-> rs.b, h |-> rs.heap,
     cl |-> [cl EXCEPT !.pc = IF cl.op = "run" THEN "done" ELSE "returned",
                       !.sells = IF rs.sold THEN @ + 1 ELSE @,
                       !.result = Some(ResultOf(b, cl, rs.b.portfolio[1],
                                                rs.b.trades))]]

\* the end of run as it would be without the forced liquidation
RunEnd_no_liquidation(b, h, cl) == Assemble(b, cl, NotLiquidated(b, h))

\* lines 77-98: forced liquidation and the assembly of the result
RunEnd(b, h, cl) == Only({Assemble(b, cl, rs) : rs \in {Liquidate(b, h, cl)}})

\* Commit as it would be if every caller wrote to the first Backtester
Commit_to_first(c, r) ==
    \E v \in {r} :
        LET nbt == [bt EXCEPT ![1] = v.b]
            ncall == [call EXCEPT ![c] = v.cl]
        IN  /\ bt' = nbt
            /\ call' = ncall
            /\ heap' = Collect(v.h, nbt, ncall)
            /\ UNCHANGED <<pf, lastCall>>

\* the three variables after a step of caller c that leaves b, h, cl
Commit(c, r) ==
    \E v \in {r} :
        LET nbt == [bt EXCEPT ![call[c].self] = v.b]
            ncall == [call EXCEPT ![c] = v.cl]
        IN  /\ bt' = nbt
            /\ call' = ncall
            /\ heap' = Collect(v.h, nbt, ncall)
            /\ UNCHANGED <<pf, lastCall>>

Free(c) == call[c].pc \in {"idle", "done", "raised"}

\* caller c calls run(strategy, data, symbol); a result it did not keep is
\* dropped
CallRun(c, names, datas, symbols) ==
    /\ Free(c)
    /\ \E name \in names, data \in datas, symbol \in symbols :
         LET strategy == Strategy(name) IN
           Commit(c, RunBegin(bt[call[c].self], heap,
                               [call[c] EXCEPT !.op = "run", !.strategies = <<>>,
                                               !.results = EmptyDict, !.k = 0,
                                               !.wf = NoWalk],
                               strategy, data, symbol))

Step(c, inputs) ==
    /\ call[c].pc = "loop"
    /\ call[c].idx < Len(call[c].data.bars)
    /\ \E sig \in inputs :
         Commit(c, RunBar(bt[call[c].self], heap, call[c], sig))

Finish(c) ==
    /\ call[c].pc = "loop"
    /\ call[c].idx = Len(call[c].data.bars)
    /\ Commit(c, RunEnd(bt[call[c].self], heap, call[c]))

RunNames == {"MA"}
RunData == Data(MaxBars)

Run1 == CallRun(1, RunNames, RunData, SymbolArgs)
Step1 == Step(1, SignalInputs)
Finish1 == Finish(1)

Next == Run1 \/ Step1 \/ Finish1

Spec == InitEngine /\ [][Next]_vars

(***************************************************************************)
(* Properties of a run  (specification Spec)                               *)
(***************************************************************************)
Trades(k) == heap[bt[k].trades]

InRun(c) == call[c].pc \in {"loop", "done", "returned"}

\* the bar the loop of caller c processed last
LastBar(c) == call[c].data.bars[call[c].idx]

(***************************************************************************)
(* A Portfolio object driven directly through its API                      *)
(* (specification SpecPortfolio)                                           *)
(***************************************************************************)
MaxOps == 3                  \* API calls made on the Portfolio

PfSymbols == {"AAA", "BBB"}
PfCash == {Zero, R(3)}       \* initial_cash
PfShares == {0, 1, 2}        \* shares >= 0
PfPrices == {R(1), R(2)}     \* price > 0
PfFees == {Zero, R(1), R(4)} \* commission >= 0

InitPortfolio ==
    /\ bt = [k \in Insts |-> Backtester(R(10), Zero, Zero, R(1), k)]
    /\ heap = [k \in Insts |-> <<>>]
    /\ call = [c \in Callers |-> IdleCall(1)]
    /\ \E cash \in PfCash : pf = Portfolio(cash)
    /\ lastCall = [op |-> "init", args |-> <<>>, ret |-> <<>>, n |-> 0]

BuyArgs(symbol, shares, price, date, commission) ==
    [symbol |-> symbol, shares |-> shares, price |-> price, date |-> date,
     commission |-> commission]

\* pf.buy(symbol, shares, price, date, commission); the date is the call's
\* place in the sequence of calls
PfBuy ==
    /\ lastCall.n < MaxOps
    /\ \E symbol \in PfSymbols, shares \in PfShares, price \in PfPrices,
          commission \in PfFees :
         LET date == lastCall.n + 1
             r == buy(pf, symbol, shares, price, date, commission)
         IN  /\ pf' = r.p
             /\ lastCall' = [op |-> "buy",
                             args |-> BuyArgs(symbol, shares, price, date, commission),
                             ret |-> <<r.ret>>, n |-> date]
    /\ UNCHANGED <<bt, heap, call>>

\* pf.sell(symbol, shares, price, date, commission), shares None or a number
PfSell ==
    /\ lastCall.n < MaxOps
    /\ \E symbol \in PfSymbols, shares \in {None} \cup {Some(k) : k \in PfShares},
          price \in PfPrices, commission \in PfFees :
         LET date == lastCall.n + 1
             r == sell(pf, symbol, shares, price, date, commission)
         IN  /\ pf' = r.p
             /\ lastCall' = [op |-> "sell",
                             args |-> BuyArgs(symbol, shares, price, date, commission),
                             ret |-> r.ret, n |-> date]
    /\ UNCHANGED <<bt, heap, call>>

\* pf.update_history(date, current_prices), prices known for some symbols
PfUpdateHistory ==
    /\ lastCall.n < MaxOps
    /\ \E known \in SUBSET PfSymbols, price \in PfPrices :
         LET date == lastCall.n + 1
             current_prices == [s \in known |-> price]
         IN  /\ pf' = update_history(pf, date, current_prices)
             /\ lastCall' = [op |-> "update_history",
                             args |-> BuyArgs("", 0, price, date, Zero),
                             ret |-> None, n |-> date]
    /\ UNCHANGED <<bt, heap, call>>

NextPortfolio == PfBuy \/ PfSell \/ PfUpdateHistory

SpecPortfolio == InitPortfolio /\ [][NextPortfolio]_vars

\* C1 (as claimed): the cash of a Portfolio is never negative, whatever
\* sequence of buy, sell and update_history calls is made with shares >= 0,
\* price > 0 and commission >= 0.
C1_CashNeverNegative == RGe(pf.cash, Zero)

Cost(args) == RAdd(RScale(args.shares, args.price), args.commission)

\* C2: a buy whose cost shares*price + commission exceeds the cash returns
\* False (it does not raise) and leaves the Portfolio - cash, positions and
\* the four history lists - as it was; a buy that returns True has debited
\* exactly the cost and leaves cash >= 0.
C2_BuyAdmission ==
    [][(lastCall'.op = "buy" /\ lastCall'.n = lastCall.n + 1) =>
         LET cost == Cost(lastCall'.args) IN
           /\ RGt(cost, pf.cash) => (lastCall'.ret = <<"False">> /\ pf' = pf)
           /\ lastCall'.ret = <<"False">> => RGt(cost, pf.cash)
           /\ lastCall'.ret = <<"True">> =>
                /\ pf'.cash = RSub(pf.cash, cost)
                /\ RGe(pf'.cash, Zero)
                /\ pf'.equity_history = pf.equity_history
                /\ pf'.cash_history = pf.cash_history
                /\ pf'.position_value_history = pf.position_value_history
                /\ pf'.dates = pf.dates
      ]_vars

\* a rejected buy on a Portfolio that holds a position and a snapshot
C2_Witness ==
    /\ lastCall.op = "buy"
    /\ lastCall.ret = <<"False">>
    /\ RGt(pf.cash, Zero)
    /\ DOMAIN pf.positions # {}
    /\ Len(pf.dates) > 0

\* an accepted buy that spent the whole cash
C2_WitnessAccepted ==
    /\ lastCall.op = "buy"
    /\ lastCall.ret = <<"True">>
    /\ lastCall.args.shares > 0
    /\ pf.cash = Zero

(***************************************************************************)
(* Backtester.run_multiple (engine.py 168-179) and callers that hold on    *)
(* to results  (specification SpecRerun)                                   *)
(***************************************************************************)
RerunNames == {"Moving Average Crossover", "Momentum"}
\* frames of up to MaxBarsRerun bars at a constant close
RerunData == {d \in Data(MaxBarsRerun) :
                \A k \in 1..Len(d.bars) : d.bars[k].close = R(1)}
RerunSymbols == {None}
RerunSignalInputs == {Some(0), Some(1)}
RerunConfigs == {Config(R(10), <<1, 10>>, <<1, 10>>, R(1))}

\* the strategy lists given to run_multiple
RECURSIVE Lists(_, _)
Lists(S, n) ==
    IF n = 0 THEN {<<>>}
    ELSE Lists(S, n - 1) \cup
         {Append(l, x) : l \in {m \in Lists(S, n - 1) : Len(m) = n - 1}, x \in S}

StrategyLists == Lists({Strategy(n) : n \in RerunNames}, MaxStrategies)

\* results[name] = result
SetItem(dict, name, value) ==
    [n \in DOMAIN dict \cup {name} |-> IF n = name THEN value ELSE dict[n]]

\* caller c calls run_multiple(strategies, data, symbol): line 175
CallRunMultiple(c) ==
    /\ Free(c)
    /\ \E strategies \in StrategyLists, data \in RerunData, symbol \in RerunSymbols :
         Commit(c, [b |-> bt[call[c].self], h |-> heap,
                    cl |-> [IdleCall(call[c].self) EXCEPT
                              !.op = "run_multiple", !.pc = "mloop",
                              !.strategies = strategies, !.data = data,
                              !.symbol = IF symbol = None THEN "" ELSE symbol[1],
                              !.kept = call[c].kept]])

\* lines 176-177 and 179: the loop takes the next strategy and calls run on
\* it, or the list is exhausted and the mapping is returned
MultiNext(c) ==
    /\ call[c].pc = "mloop"
    /\ IF call[c].k < Len(call[c].strategies)
       THEN Commit(c, RunBegin(bt[call[c].self], heap, call[c],
                               call[c].strategies[call[c].k + 1], call[c].data,
                               IF call[c].symbol = "" THEN None
                               ELSE Some(call[c].symbol)))
       ELSE Commit(c, [b |-> bt[call[c].self], h |-> heap,
                       cl |-> [call[c] EXCEPT !.pc = "done"]])

\* line 178: the result of the run is stored under the strategy's name
MultiStore(c) ==
    /\ call[c].op = "run_multiple"
    /\ call[c].pc = "returned"
    /\ Commit(c, [b |-> bt[call[c].self], h |-> heap,
                  cl |-> [call[c] EXCEPT
                            !.pc = "mloop",
                            !.k = @ + 1,
                            !.strategies[call[c].k + 1] = call[c].strategy,
                            !.results = SetItem(@, call[c].strategy.name,
                                                call[c].result[1]),
                            !.result = None]])

\* the caller holds on to what the finished call returned
Keep(c) ==
    /\ call[c].pc = "done"
    /\ call[c].op = "run"
    /\ DOMAIN call[c].kept = {}
    /\ Commit(c, [b |-> bt[call[c].self], h |-> heap,
                  cl |-> [call[c] EXCEPT
                            !.kept = SetItem(@, call[c].strategy.name,
                                             call[c].result[1])]])

Rerun1 == CallRun(1, RerunNames, RerunData, RerunSymbols)
RunMultiple1 == CallRunMultiple(1)
MultiNext1 == MultiNext(1)
MultiStore1 == MultiStore(1)
Keep1 == Keep(1)
StepRerun1 == Step(1, RerunSignalInputs)

InitRerun == InitWith(RerunConfigs)

NextRerun ==
    Rerun1 \/ StepRerun1 \/ Finish1 \/ Keep1 \/ RunMultiple1 \/ MultiNext1 \/ MultiStore1

SpecRerun == InitRerun /\ [][NextRerun]_vars

\* C3: every snapshot satisfies equity = cash + position value; the snapshot
\* of the bar just processed holds the cash left after the bar's signal and
\* values the held shares at the bar's close.
C3_SnapshotConservation ==
    \A c \in {1} :
      (call[c].pc = "loop") =>
        LET p == Pf(call[c].self)
            n == Len(p.dates)
            held == SetToSeq(DOMAIN p.positions)
        IN  /\ n = call[c].idx
            /\ Len(p.equity_history) = n
            /\ Len(p.cash_history) = n
            /\ Len(p.position_value_history) = n
            /\ \A i \in 1..n :
                 p.equity_history[i] =
                   RAdd(p.cash_history[i], p.position_value_history[i])
            /\ n > 0 =>
                 /\ p.cash_history[n] = p.cash
                 /\ p.position_value_history[n] =
                      RSum([j \in 1..Len(held) |->
                              RScale(p.positions[held[j]].shares, LastBar(c).close)])

\* a snapshot taken with a position open whose close differs from its cost
C3_Witness ==
    /\ call[1].pc = "loop"
    /\ call[1].idx = 2
    /\ has_position(Pf(1), call[1].symbol)
    /\ Pf(1).positions[call[1].symbol].entry_price # LastBar(1).close
    /\ RGt(Pf(1).cash, Zero)

\* the trades of the result caller c was returned
ResultTrades(c) == heap[call[c].result[1].trades]

FromEntry(t, e) ==
    /\ t.entry_date = e.entry_date
    /\ t.entry_price = e.entry_price
    /\ t.shares = e.shares
    /\ t.entry_commission = e.entry_commission

\* C4: at the end of a run the result holds as many Trades as Portfolio.sell
\* calls closed a position during the run, and every Trade carries the
\* open-entry record written by a successful buy of the same run, made on a
\* bar no later than the Trade's exit.
C4_TradeSellReconciliation ==
    \A c \in {1} :
      (call[c].pc = "done") =>
        /\ Len(ResultTrades(c)) = call[c].sells
        /\ \A i \in 1..Len(ResultTrades(c)) :
             \E j \in 1..Len(call[c].buys) :
               /\ FromEntry(ResultTrades(c)[i], call[c].buys[j])
               /\ call[c].buys[j].entry_date <= ResultTrades(c)[i].exit_date
        /\ Len(call[c].buys) = call[c].sells

\* a run that ended with two trades: one closed by a signal, one by the
\* liquidation at the end of the series
C4_Witness ==
    /\ call[1].pc = "done"
    /\ Len(ResultTrades(1)) = 2
    /\ call[1].sells = 2
    /\ ResultTrades(1)[2].entry_date = 3

\* C5: the step that ends the loop, when a position is open, appends exactly
\* one Trade that exits on the last bar at last_close * (1 - slippage_pct)
\* with exit commission commission_pct * shares * exit_price, and appends
\* nothing otherwise; in both cases no position and no open entry remain.
C5_ForcedLiquidation ==
    [][\A c \in {1} :
        (call[c].pc = "loop" /\ call'[c].pc = "done") =>
          LET k == call[c].self
              p == Pf(k)
              sym == call[c].symbol
              last == call[c].data.bars[Len(call[c].data.bars)]
              before == heap[bt[k].trades]
              after == heap'[bt'[k].trades]
              price == RMul(last.close, RSub(R(1), bt[k].slippage_pct))
          IN  /\ bt'[k].trades = bt[k].trades
              /\ DOMAIN bt'[k].portfolio[1].positions = {}
              /\ DOMAIN bt'[k].open_trade_entry = {}
              /\ ~has_position(p, sym) => after = before
              /\ has_position(p, sym) =>
                   /\ Len(after) = Len(before) + 1
                   /\ SubSeq(after, 1, Len(before)) = before
                   /\ after[Len(after)].exit_date = last.date
                   /\ after[Len(after)].exit_price = price
                   /\ after[Len(after)].shares = p.positions[sym].shares
                   /\ after[Len(after)].exit_commission =
                        RMul(bt[k].commission_pct,
                             RScale(p.positions[sym].shares, price))
                   /\ FromEntry(after[Len(after)], bt[k].open_trade_entry[sym])
      ]_vars

\* a run that ended by liquidating a position bought on an earlier bar
C5_Witness ==
    /\ call[1].pc = "done"
    /\ Len(ResultTrades(1)) > 0
    /\ LET t == ResultTrades(1)[Len(ResultTrades(1))]
       IN  /\ t.exit_date = call[1].data.bars[Len(call[1].data.bars)].date
           /\ t.entry_date < t.exit_date
           /\ SignalAt(call[1].strategy, t.exit_date) # -1
           /\ RLt(t.exit_price, call[1].data.bars[Len(call[1].data.bars)].close)

AllFlat(strategy) == \A d \in DOMAIN strategy.sigs : strategy.sigs[d] = 0

\* C6: while every signal read so far was 0 or absent, there is no trade and
\* every snapshot's cash is the initial capital; such a run returns no
\* trades and final_capital = initial_capital.
C6_FlatInput ==
    \A c \in {1} :
      (InRun(c) /\ AllFlat(call[c].strategy)) =>
        LET k == call[c].self IN
          /\ Trades(k) = <<>>
          /\ \A i \in 1..Len(Pf(k).cash_history) :
               Pf(k).cash_history[i] = bt[k].initial_capital
          /\ Len(Pf(k).cash_history) = call[c].idx
          /\ call[c].pc = "done" =>
               /\ ResultTrades(c) = <<>>
               /\ call[c].result[1].final_capital = bt[k].initial_capital
               /\ call[c].result[1].initial_capital = bt[k].initial_capital

\* a finished flat run over the longest series, with absent and 0 signals
C6_Witness ==
    /\ call[1].pc = "done"
    /\ AllFlat(call[1].strategy)
    /\ call[1].idx = MaxBars
    /\ DOMAIN call[1].strategy.sigs = {2}

\* C7: the positions mapping of a run holds at most one Position, that of
\* the run's symbol; and a loop iteration that reads a +1 signal while the
\* symbol has an open position leaves cash, the positions, the open-entry
\* table and the trade list as they were.
C7_BuyWhileOpenIsNoOp ==
    /\ [](\A c \in {1} :
            InRun(c) =>
              /\ DOMAIN Pf(call[c].self).positions \subseteq {call[c].symbol}
              /\ Cardinality(DOMAIN Pf(call[c].self).positions) <= 1)
    /\ [][\A c \in {1} :
            LET k == call[c].self
                row == call[c].data.bars[call[c].idx + 1]
            IN  (/\ call[c].pc = "loop"
                 /\ call'[c].pc = "loop"
                 /\ call'[c].idx = call[c].idx + 1
                 /\ SignalAt(call'[c].strategy, row.date) = 1
                 /\ has_position(Pf(k), call[c].symbol))
                =>
                (/\ bt'[k].portfolio[1].cash = Pf(k).cash
                 /\ bt'[k].portfolio[1].positions = Pf(k).positions
                 /\ bt'[k].open_trade_entry = bt[k].open_trade_entry
                 /\ bt'[k].trades = bt[k].trades
                 /\ heap'[bt'[k].trades] = heap[bt[k].trades]
                 /\ call'[c].buys = call[c].buys)
       ]_vars

\* two +1 signals in a row, the second one read with cash left that would
\* buy more shares
C7_Witness ==
    /\ call[1].pc = "loop"
    /\ call[1].idx = 2
    /\ SignalAt(call[1].strategy, 1) = 1
    /\ SignalAt(call[1].strategy, 2) = 1
    /\ has_position(Pf(1), call[1].symbol)
    /\ Pf(1).positions[call[1].symbol].entry_date = 1
    /\ calculate_shares(bt[1], apply_slippage(bt[1], LastBar(1).close, "buy"),
                        RMul(Pf(1).cash, bt[1].position_size_pct)) > 0

Malformed(data) == Len(data.bars) = 0 \/ ~HasColumn(data, "close")

\* C8: a call of run raises exactly when the price frame is empty or lacks
\* the close column, and then the Backtester's portfolio, trades and
\* open_trade_entry (and the trade lists) are what they were before the call.
C8_FailFast ==
    [][\A c \in {1} :
         (Free(c) /\ call'[c] # call[c]) =>
           /\ Malformed(call'[c].data) <=> call'[c].pc = "raised"
           /\ call'[c].pc # "raised" => call'[c].pc = "loop"
           /\ call'[c].pc = "raised" => (bt' = bt /\ heap' = heap)
      ]_vars

\* a call that raised on a Backtester still holding the state of a previous
\* run that made a trade
C8_Witness ==
    /\ call[1].pc = "raised"
    /\ bt[1].portfolio # None
    /\ Len(Trades(1)) > 0
    /\ Len(Pf(1).dates) = MaxBars
    /\ Len(call[1].data.bars) > 0


(***************************************************************************)
(* Properties of repeated runs and run_multiple  (SpecRerun)               *)
(***************************************************************************)
\* a result as its holder reads it: the trade list is the list's contents
View(result, h) == [result EXCEPT !.trades = h[@]]

\* the results caller c holds: those it kept and those in the mapping that
\* run_multiple is filling or has returned
Held(cl) ==
    {cl.kept[n] : n \in DOMAIN cl.kept} \cup {cl.results[n] : n \in DOMAIN cl.results}

\* C9: no step of a later run or run_multiple on the same Backtester changes
\* a result that run returned earlier and that is still held: its trade
\* list, equity curve, final_capital and metrics read the same before and
\* after the step.
C9_NoAliasingAcrossRuns ==
    [][\A c \in Callers : \A result \in Held(call[c]) :
         result \in Held(call'[c]) =>
           /\ result.trades \in DOMAIN heap'
           /\ View(result, heap') = View(result, heap)
      ]_vars

\* a kept result with a trade, after a later run on the same Backtester that
\* returned another trade list with other contents
C9_Witness ==
    /\ call[1].op = "run"
    /\ call[1].pc = "done"
    /\ \E n \in DOMAIN call[1].kept :
         LET kept == call[1].kept[n]
             later == call[1].result[1]
         IN  /\ later.trades # kept.trades
             /\ Len(heap[kept.trades]) > 0
             /\ heap[later.trades] # heap[kept.trades]
             /\ bt[call[1].self].trades = later.trades

\* run(strategy, data, symbol) to its end on the state r after RunBegin, the
\* signal series being the one recorded in the strategy
RECURSIVE RunLoop(_)
RunLoop(r) ==
    IF r.cl.pc # "loop" THEN r
    ELSE IF r.cl.idx < Len(r.cl.data.bars)
    THEN LET date == r.cl.data.bars[r.cl.idx + 1].date
             sig == IF date \in DOMAIN r.cl.strategy.sigs
                    THEN Some(r.cl.strategy.sigs[date]) ELSE None
         IN  RunLoop(RunBar(r.b, r.h, r.cl, sig))
    ELSE RunEnd(r.b, r.h, r.cl)

\* what a fresh Backtester with the parameters of b returns from
\* run(strategy, data, symbol)
FreshRun(b, strategy, data, symbol) ==
    LET fresh == Backtester(b.initial_capital, b.commission_pct,
                            b.slippage_pct, b.position_size_pct, 1)
        r == RunLoop(RunBegin(fresh, (1 :> <<>>),
                              [IdleCall(1) EXCEPT !.op = "run"],
                              strategy, data, symbol))
    IN  [result |-> r.cl.result, h |-> r.h]

\* C10: when run_multiple returns, the mapping holds under the name of every
\* strategy of the list a result equal to the one a fresh Backtester with
\* the same parameters returns from run on that strategy.
C10_OneResultPerStrategy ==
    \A c \in Callers :
      (call[c].op = "run_multiple" /\ call[c].pc = "done") =>
        \A i \in 1..Len(call[c].strategies) :
          LET s == call[c].strategies[i]
              alone == FreshRun(bt[call[c].self], s, call[c].data,
                                IF call[c].symbol = "" THEN None
                                ELSE Some(call[c].symbol))
          IN  /\ s.name \in DOMAIN call[c].results
              /\ alone.result # None
              /\ View(call[c].results[s.name], heap)
                   = View(alone.result[1], alone.h)


(***************************************************************************)
(* Properties of Portfolio.sell and Portfolio.buy  (SpecPortfolio)         *)
(***************************************************************************)
\* the step is a call of pf.sell / pf.buy
IsSell == lastCall'.op = "sell" /\ lastCall'.n = lastCall.n + 1
IsBuy == lastCall'.op = "buy" /\ lastCall'.n = lastCall.n + 1

\* C11: a sell on an open position sells min(requested, held) shares (all
\* held shares when the request is None), credits shares_sold*price -
\* commission to the cash and returns that amount less
\* shares_sold*entry_price; the entry is removed when all held shares were
\* sold and otherwise stays with the shares reduced and the same entry_price
\* and entry_date.  Other positions are untouched.
C11_SellOnOpenPosition ==
    [][(IsSell /\ has_position(pf, lastCall'.args.symbol)) =>
         LET a == lastCall'.args
             held == pf.positions[a.symbol]
             requested == IF a.shares = None THEN held.shares ELSE a.shares[1]
             shares_sold == IF requested < held.shares THEN requested
                            ELSE held.shares
             proceeds == RSub(RScale(shares_sold, a.price), a.commission)
         IN  /\ pf'.cash = RAdd(pf.cash, proceeds)
             /\ lastCall'.ret =
                  Some(RSub(proceeds, RScale(shares_sold, held.entry_price)))
             /\ IF shares_sold = held.shares
                THEN a.symbol \notin DOMAIN pf'.positions
                ELSE /\ a.symbol \in DOMAIN pf'.positions
                     /\ pf'.positions[a.symbol] =
                          Position(a.symbol, held.shares - shares_sold,
                                   held.entry_price, held.entry_date)
             /\ \A s \in DOMAIN pf.positions \ {a.symbol} :
                  s \in DOMAIN pf'.positions /\ pf'.positions[s] = pf.positions[s]
      ]_vars

\* a partial sell: one share requested and sold, one share left
C11_Witness ==
    /\ lastCall.op = "sell"
    /\ lastCall.ret # None
    /\ lastCall.args.shares = Some(1)
    /\ lastCall.args.symbol \in DOMAIN pf.positions
    /\ pf.positions[lastCall.args.symbol].shares = 1


\* 10 shares at 100, then 10 more at 120, no commission
MergeExample ==
    LET first == buy(Portfolio(R(5000)), "AAA", 10, R(100), 1, Zero)
        second == buy(first.p, "AAA", 10, R(120), 2, Zero)
    IN  second

\* C13: a successful buy of n shares at price p on a symbol already held
\* with s shares at entry price e leaves s+n shares at entry price
\* (s*e + n*p)/(s+n), the commission not entering the average, and with the
\* entry_date of the first buy; 10 at 100 then 10 at 120 gives 20 at 110.
C13_AverageCostMerge ==
    [][/\ (/\ IsBuy
           /\ lastCall'.ret = <<"True">>
           /\ lastCall'.args.symbol \in DOMAIN pf.positions) =>
            LET a == lastCall'.args
                held == pf.positions[a.symbol]
                total == held.shares + a.shares
            IN  /\ a.symbol \in DOMAIN pf'.positions
                /\ pf'.positions[a.symbol] =
                     Position(a.symbol, total,
                              RDiv(RAdd(RScale(held.shares, held.entry_price),
                                        RScale(a.shares, a.price)), R(total)),
                              held.entry_date)
       /\ MergeExample.ret = "True"
       /\ MergeExample.p.positions["AAA"] = Position("AAA", 20, R(110), 1)
      ]_vars

\* a merge that paid a commission, onto a position opened by an earlier call
C13_Witness ==
    /\ lastCall.op = "buy"
    /\ lastCall.ret = <<"True">>
    /\ RGt(lastCall.args.commission, Zero)
    /\ lastCall.args.shares = 1
    /\ lastCall.args.symbol \in DOMAIN pf.positions
    /\ pf.positions[lastCall.args.symbol].shares = 2
    /\ pf.positions[lastCall.args.symbol].entry_date < lastCall.n

(***************************************************************************)
(* The Portfolio API and Backtester.run side by side  (SpecSell): the      *)
(* caller either drives a Portfolio of its own or runs a backtest; the two *)
(* objects share nothing.                                                  *)
(***************************************************************************)
\* C14 (as claimed): every Position in the positions mapping has shares > 0,
\* whatever sequence of buy and sell calls is made, buys of 0 shares and
\* sells of 0 shares included.
C14_NoZeroSharePosition ==
    \A s \in DOMAIN pf.positions : pf.positions[s].shares > 0

NextSell ==
    \/ (call[1].pc = "idle" /\ NextPortfolio)
    \/ (lastCall.n = 0 /\ Next)

SpecSell == InitPortfolio /\ [][NextSell]_vars

\* the step of caller c is a loop iteration of run on a bar whose signal is
\* sig
IsBar(c, sig) ==
    /\ call[c].pc = "loop"
    /\ call'[c].pc = "loop"
    /\ call'[c].idx = call[c].idx + 1
    /\ LET date == call[c].data.bars[call[c].idx + 1].date
       IN  /\ date \in DOMAIN call'[c].strategy.sigs
           /\ call'[c].strategy.sigs[date] = sig

\* C12: Portfolio.sell on a symbol without an open position returns None and
\* leaves the Portfolio as it was; in a run, a -1 signal on a bar where the
\* symbol is flat changes neither cash nor positions (none is opened, none
\* is short), appends no Trade and leaves open_trade_entry alone.
C12_SellWithoutPosition ==
    [][/\ (IsSell /\ ~has_position(pf, lastCall'.args.symbol)) =>
            (lastCall'.ret = None /\ pf' = pf)
       /\ \A c \in Callers :
            (IsBar(c, -1) /\ ~has_position(Pf(call[c].self), call[c].symbol)) =>
              LET k == call[c].self IN
                /\ bt'[k].portfolio[1].cash = Pf(k).cash
                /\ bt'[k].portfolio[1].positions = Pf(k).positions
                /\ DOMAIN bt'[k].portfolio[1].positions = {}
                /\ bt'[k].trades = bt[k].trades
                /\ heap'[bt[k].trades] = heap[bt[k].trades]
                /\ bt'[k].open_trade_entry = bt[k].open_trade_entry
      ]_vars

\* a run whose first signal was -1, on the bar after it: nothing was bought,
\* sold or recorded
C12_Witness ==
    /\ call[1].pc = "loop"
    /\ call[1].idx = 1
    /\ call[1].strategy.sigs = (call[1].data.bars[1].date :> -1)
    /\ Pf(1).cash = bt[1].initial_capital
    /\ DOMAIN Pf(1).positions = {}
    /\ heap[bt[1].trades] = <<>>
    /\ Len(Pf(1).dates) = 1


(***************************************************************************)
(* Backtester.walk_forward_analysis (engine.py 181-204)  (SpecWalk)        *)
(***************************************************************************)
MaxBarsWalk == 3      \* longest price series given to walk_forward_analysis

\* train_size, test_size and step_size: any integers
WalkSizes == {-1, 0, 1, 2}
WalkNames == {"Momentum"}
WalkKept == MaxBarsWalk
\* frames of up to MaxBarsWalk bars at a constant close, timestamps 1..N
WalkData == {d \in Data(MaxBarsWalk) :
               \A k \in 1..Len(d.bars) : d.bars[k].close = R(1)}

\* a slice bound as Python normalises it for a sequence of n items
SliceIndex(i, n) == IF i < 0 THEN (IF i + n < 0 THEN 0 ELSE i + n)
                    ELSE (IF i > n THEN n ELSE i)

\* data.iloc[start:stop]
iloc(data, start, stop) ==
    LET n == Len(data.bars)
    IN  [data EXCEPT !.bars = SubSeq(@, SliceIndex(start, n) + 1,
                                     SliceIndex(stop, n))]

\* caller c calls walk_forward_analysis(strategy, data, train_size,
\* test_size, step_size): lines 191-192
CallWalkForward(c) ==
    /\ Free(c)
    /\ \E name \in WalkNames, data \in WalkData,
          train_size \in WalkSizes, test_size \in WalkSizes,
          step_size \in WalkSizes :
         Commit(c, [b |-> bt[call[c].self], h |-> heap,
                    cl |-> [IdleCall(call[c].self) EXCEPT
                              !.op = "walk_forward", !.pc = "wloop",
                              !.strategy = Strategy(name),
                              !.kept = call[c].kept,
                              !.wf = [data |-> data, train_size |-> train_size,
                                      test_size |-> test_size,
                                      step_size |-> step_size, start_idx |-> 0,
                                      results |-> <<>>, more |-> FALSE]]])

\* the loop as it would be with < in place of <= in its condition
WalkNext_strict(c) ==
    /\ call[c].pc = "wloop"
    /\ LET w == call[c].wf
           train_end == w.start_idx + w.train_size
           test_end == train_end + w.test_size
       IN  IF w.start_idx + w.train_size + w.test_size < Len(w.data.bars)
           THEN Commit(c, RunBegin(bt[call[c].self], heap, call[c],
                                   Strategy(call[c].strategy.name),
                                   iloc(w.data, train_end, test_end), None))
           ELSE Commit(c, [b |-> bt[call[c].self], h |-> heap,
                           cl |-> [call[c] EXCEPT !.pc = "done"]])

\* lines 194-199 and 204: while train+test fits, the test slice is cut and
\* run is called on it; otherwise the list is returned
WalkNext(c) ==
    /\ call[c].pc = "wloop"
    /\ LET w == call[c].wf
           train_end == w.start_idx + w.train_size
           test_end == train_end + w.test_size
       IN  IF w.start_idx + w.train_size + w.test_size <= Len(w.data.bars)
           THEN Commit(c, RunBegin(bt[call[c].self], heap, call[c],
                                   Strategy(call[c].strategy.name),
                                   iloc(w.data, train_end, test_end), None))
           ELSE Commit(c, [b |-> bt[call[c].self], h |-> heap,
                           cl |-> [call[c] EXCEPT !.pc = "done"]])

\* lines 200-202: the result is appended and start_idx moves by step_size
WalkStore(c) ==
    /\ call[c].op = "walk_forward"
    /\ call[c].pc = "returned"
    /\ LET w == call[c].wf
           full == Len(w.results) >= WalkKept
       IN  Commit(c, [b |-> bt[call[c].self], h |-> heap,
                      cl |-> [call[c] EXCEPT
                                !.pc = "wloop",
                                !.result = None,
                                !.wf = [w EXCEPT
                                          !.results =
                                            Append(IF full THEN Tail(@) ELSE @,
                                                   call[c].result[1]),
                                          !.more = @ \/ full,
                                          !.start_idx = @ + w.step_size]]])

WalkForward1 == CallWalkForward(1)
WalkNext1 == WalkNext(1)
WalkStore1 == WalkStore(1)

InitWalk == InitWith(RerunConfigs)

NextWalk == WalkForward1 \/ WalkNext1 \/ StepRerun1 \/ Finish1 \/ WalkStore1

SpecWalk == InitWalk /\ [][NextWalk]_vars

\* One call of walk_forward_analysis on a new Backtester  (SpecWalkOnce).
\* The engine is sequential and synchronous: the loop of
\* walk_forward_analysis goes on whenever it is at its head or has a result
\* to store.
WalkLoops == WalkNext1 \/ WalkStore1

NextWalkOnce ==
    (call[1].pc = "idle" /\ WalkForward1) \/ WalkLoops \/ StepRerun1 \/ Finish1

SpecWalkOnce == InitWalk /\ [][NextWalkOnce]_vars /\ WF_vars(WalkLoops)


\* the timestamps of an equity curve, in order
CurveDates(curve) == [i \in 1..Len(curve) |-> curve[i][1]]

\* the number of windows k = 0, 1, ... with k*step + train + test <= n
Windows(n, train_size, test_size, step_size) ==
    IF n < train_size + test_size THEN 0
    ELSE (n - train_size - test_size) \div step_size + 1

\* C15: called with positive train_size, test_size and step_size on a
\* series of N bars, walk_forward_analysis does not raise and returns the
\* results in window order, one per k with k*step_size + train_size +
\* test_size <= N (none when N < train_size + test_size); result k is a
\* backtest over exactly the bars k*step_size + train_size + 1 ..
\* k*step_size + train_size + test_size (counted from 1), the timestamps of
\* its equity curve.
C15_WalkForwardWindows ==
    \A c \in Callers :
      LET w == call[c].wf
          n == Len(w.data.bars)
      IN  (/\ call[c].op = "walk_forward"
           /\ w.train_size > 0 /\ w.test_size > 0 /\ w.step_size > 0) =>
            /\ call[c].pc # "raised"
            /\ call[c].pc = "done" =>
                 /\ ~w.more
                 /\ Len(w.results) =
                      Windows(n, w.train_size, w.test_size, w.step_size)
                 /\ \A i \in 1..Len(w.results) :
                      LET first == (i - 1) * w.step_size + w.train_size + 1
                          last == first + w.test_size - 1
                      IN  /\ last <= n
                          /\ w.results[i].start_date = w.data.bars[first].date
                          /\ w.results[i].end_date = w.data.bars[last].date
                          /\ CurveDates(w.results[i].equity_curve) =
                               [j \in 1..w.test_size |->
                                  w.data.bars[first + j - 1].date]

\* two windows returned, the second with a trade
C15_Witness ==
    /\ call[1].op = "walk_forward"
    /\ call[1].pc = "done"
    /\ call[1].wf.train_size > 0 /\ call[1].wf.test_size > 0
    /\ call[1].wf.step_size > 0
    /\ Len(call[1].wf.results) = 2
    /\ Len(heap[call[1].wf.results[2].trades]) = 1
    /\ Len(heap[call[1].wf.results[1].trades]) = 0

\* C16 (as claimed): every call of walk_forward_analysis ends, by returning
\* its list or by raising, whatever integers train_size, test_size and
\* step_size are - the runs it calls on the windows coming back each time.
C16_WalkForwardTerminates ==
    ([]<>(call[1].pc # "loop")) =>
      ((call[1].op = "walk_forward" /\ call[1].pc \notin {"done", "raised"})
         ~> (call[1].pc \in {"done", "raised"}))

(***************************************************************************)
(* The worked example  (specification SpecExample)                         *)
(*                                                                         *)
(* One Backtester built with initial capital 100000, commission 0.1%,     *)
(* slippage 0.05% and position_size_pct 1 runs on the five closes          *)
(* 100, 102, 101, 105, 103; the signal series is free.                     *)
(***************************************************************************)
ExampleConfigs == {Config(R(100000), <<1, 1000>>, <<1, 2000>>, R(1))}

ExampleCloses == <<R(100), R(102), R(101), R(105), R(103)>>

ExampleSignals == <<0, 1, 0, 0, -1>>

ExampleFrame ==
    [columns |-> <<"close", "volume">>,
     bars |-> [k \in 1..Len(ExampleCloses) |-> Bar(k, ExampleCloses[k])]]

ExampleData == {ExampleFrame}

RunExample1 == CallRun(1, RunNames, ExampleData, SymbolArgs)

InitExample == InitWith(ExampleConfigs)

NextExample == RunExample1 \/ Step1 \/ Finish1

SpecExample == InitExample /\ [][NextExample]_vars

\* the signals the strategy of caller c gave on the first n bars are the
\* example's
ExampleRun(c, n) ==
    /\ call[c].op = "run"
    /\ call[c].data = ExampleFrame
    /\ call[c].idx = n
    /\ call[c].strategy.sigs = [d \in 1..n |-> ExampleSignals[d]]

\* C17: in the worked example run buys 978 shares on bar 2 at 102 * 1.0005,
\* sells them all on bar 5 at 103 * 0.9995, so that no position is left for
\* the forced liquidation, and returns exactly one Trade, whose net P&L is
\* positive (num_trades = 1).
C17_WorkedExample ==
    /\ ExampleRun(1, 2) =>
         /\ Len(call[1].buys) = 1
         /\ has_position(Pf(1), "AAA")
         /\ Pf(1).positions["AAA"].shares = 978
         /\ Pf(1).positions["AAA"].entry_date = 2
    /\ ExampleRun(1, 4) => (Trades(1) = <<>> /\ has_position(Pf(1), "AAA"))
    /\ (ExampleRun(1, 5) /\ call[1].pc = "loop") =>
         (~has_position(Pf(1), "AAA") /\ Len(Trades(1)) = 1)
    /\ (ExampleRun(1, 5) /\ call[1].pc = "done") =>
         LET ts == ResultTrades(1)
         IN  /\ num_trades(ts) = 1
             /\ ts[1].shares = 978
             /\ ts[1].entry_date = 2 /\ ts[1].exit_date = 5
             /\ ts[1].entry_price = RMul(R(102), <<2001, 2000>>)
             /\ ts[1].exit_price = RMul(R(103), <<1999, 2000>>)
             /\ RGt(net_pnl(ts[1]), Zero)
             /\ call[1].sells = 1

\* the example's run has returned
C17_Witness == ExampleRun(1, 5) /\ call[1].pc = "done"

(***************************************************************************)
(* Trade statistics of a returned result                                   *)
(***************************************************************************)
\* the trades of ts whose net P&L is positive
Winners(ts) == {i \in DOMAIN ts : RGt(net_pnl(ts[i]), Zero)}

\* C18: the win_rate of every returned BacktestResult is 0 when its trade
\* list is empty and otherwise the number of trades with net_pnl > 0 divided
\* by the number of trades, so it lies between 0 and 1.
C18_WinRate ==
    \A c \in Callers :
        (call[c].op = "run" /\ call[c].pc = "done") =>
            /\ ResultTrades(c) = <<>> => win_rate(ResultTrades(c)) = Zero
            /\ ResultTrades(c) # <<>> =>
                 win_rate(ResultTrades(c))
                   = RDiv(R(Cardinality(Winners(ResultTrades(c)))),
                          R(Len(ResultTrades(c))))
            /\ RLe(Zero, win_rate(ResultTrades(c)))
            /\ RLe(win_rate(ResultTrades(c)), R(1))

\* a result with two trades, one of them a winner
C18_Witness ==
    /\ call[1].op = "run" /\ call[1].pc = "done"
    /\ Len(ResultTrades(1)) = 2
    /\ Cardinality(Winners(ResultTrades(1))) = 1

\* the only raise in an iteration of run's loop that market data or signals
\* could cause: the division by zero shares of Portfolio.buy (portfolio.py
\* 94), called at engine.py 113 for a symbol that is not held
BuyRaises(b, symbol, date, price) ==
    /\ ~has_position(b.portfolio[1], symbol)
    /\ BuyOrder(b, price).shares > 0
    /\ Fill(b, symbol, date, BuyOrder(b, price)).ret = "ZeroDivisionError"

\* C19: a run on a non-empty frame with a close column does not raise,
\* whatever the signals (1, -1, 0 or none) and however small the cash; the
\* statistics of a result without trades (num_trades, win_rate, avg_win,
\* avg_loss, profit_factor, avg_holding_period) are all 0.
C19_WellFormedRunReturns ==
    \A c \in Callers :
        (call[c].op = "run" /\ ~Malformed(call[c].data)) =>
            /\ call[c].pc \in {"loop", "done"}
            /\ (call[c].pc = "loop" /\ call[c].idx < Len(call[c].data.bars)) =>
                 ~BuyRaises(bt[call[c].self], call[c].symbol,
                            CurrentRow(call[c]).date, CurrentRow(call[c]).close)
            /\ (call[c].pc = "done" /\ ResultTrades(c) = <<>>) =>
                 /\ num_trades(ResultTrades(c)) = 0
                 /\ win_rate(ResultTrades(c)) = Zero
                 /\ avg_win(ResultTrades(c)) = Zero
                 /\ avg_loss(ResultTrades(c)) = Zero
                 /\ profit_factor(ResultTrades(c)) = Zero
                 /\ avg_holding_period(ResultTrades(c)) = Zero

\* a run over MaxBars bars has returned without a trade, after a buy signal
\* its cash could not fill and a sell signal with nothing to sell
C19_Witness ==
    /\ call[1].op = "run" /\ call[1].pc = "done"
    /\ Len(call[1].data.bars) = MaxBars
    /\ ResultTrades(1) = <<>>
    /\ bt[1].initial_capital = R(1)
    /\ \E d \in DOMAIN call[1].strategy.sigs : call[1].strategy.sigs[d] = 1
    /\ \E d \in DOMAIN call[1].strategy.sigs : call[1].strategy.sigs[d] = -1
    /\ \E d \in Dates(call[1].data) : d \notin DOMAIN call[1].strategy.sigs

(***************************************************************************)
(* Fill prices                                                             *)
(***************************************************************************)
\* the close of the bar of caller c's frame that carries the timestamp date
CloseOn(c, date) ==
    (CHOOSE bar \in {call[c].data.bars[k] : k \in DOMAIN call[c].data.bars} :
        bar.date = date).close

\* C20: in a run with slippage_pct > 0 every Trade's entry_price is the close
\* of its entry bar times (1 + slippage_pct), which is above that close, and
\* its exit_price, for a sale by signal or by the forced liquidation, is the
\* close of its exit bar times (1 - slippage_pct), which is below it; the
\* open entry of a position that is still held has the buy's fill price too.
C20_SlippageDirection ==
    \A c \in Callers :
        (call[c].op = "run" /\ call[c].pc \in {"loop", "done"}
           /\ RGt(bt[call[c].self].slippage_pct, Zero)) =>
            /\ \A i \in DOMAIN Trades(call[c].self) :
                 LET t == Trades(call[c].self)[i]
                     s == bt[call[c].self].slippage_pct
                 IN  /\ t.entry_price
                          = RMul(CloseOn(c, t.entry_date), RAdd(R(1), s))
                     /\ RGt(t.entry_price, CloseOn(c, t.entry_date))
                     /\ t.exit_price
                          = RMul(CloseOn(c, t.exit_date), RSub(R(1), s))
                     /\ RLt(t.exit_price, CloseOn(c, t.exit_date))
            /\ \A sym \in DOMAIN bt[call[c].self].open_trade_entry :
                 LET e == bt[call[c].self].open_trade_entry[sym]
                 IN  /\ e.entry_price
                          = RMul(CloseOn(c, e.entry_date),
                                 RAdd(R(1), bt[call[c].self].slippage_pct))
                     /\ RGt(e.entry_price, CloseOn(c, e.entry_date))

\* a returned run with slippage whose first trade was sold on a signal and
\* whose second was closed by the forced liquidation
C20_Witness ==
    /\ call[1].op = "run" /\ call[1].pc = "done"
    /\ RGt(bt[1].slippage_pct, Zero)
    /\ Len(ResultTrades(1)) = 2
    /\ call[1].sells = 2
    /\ \E d \in DOMAIN call[1].strategy.sigs :
         d = Len(call[1].data.bars) /\ call[1].strategy.sigs[d] = 1

(***************************************************************************)
(* Concurrent runs: callers 1 and 2 share the first Backtester, caller 3   *)
(* has the second to itself; the bars of the three runs interleave         *)
(* (specification SpecTwo)                                                 *)
(***************************************************************************)
MaxBarsTwo == 1       \* longest price series of a concurrent run

TwoConfigs == {Config(R(10), <<1, 10>>, <<1, 10>>, R(1))}
TwoData ==      \* frames of 1 to MaxBarsTwo bars that all close at 2
    {[columns |-> <<"close", "volume">>,
      bars |-> [k \in 1..n |-> Bar(k, R(2))]] : n \in 1..MaxBarsTwo}
TwoSignalInputs == {Some(1), Some(-1)}

InitTwo ==
    /\ \E cfg \in TwoConfigs :
         bt = [k \in Insts |->
                 Backtester(cfg.initial_capital, cfg.commission_pct,
                            cfg.slippage_pct, cfg.position_size_pct, k)]
    /\ heap = [k \in Insts |-> <<>>]
    /\ call = [c \in Callers |-> IdleCall(IF c = 3 THEN 2 ELSE 1)]
    /\ pf = Portfolio(Zero)
    /\ lastCall = NoCall

\* every caller makes one call of run
RunOnce(c) == call[c].pc = "idle" /\ CallRun(c, RunNames, TwoData, SymbolArgs)

RunTwo1 == RunOnce(1)
RunTwo2 == RunOnce(2)
RunTwo3 == RunOnce(3)
StepTwo1 == Step(1, TwoSignalInputs)
StepTwo2 == Step(2, TwoSignalInputs)
StepTwo3 == Step(3, TwoSignalInputs)
FinishTwo1 == Finish(1)
FinishTwo2 == Finish(2)
FinishTwo3 == Finish(3)

NextTwo ==
    \/ RunTwo1 \/ RunTwo2 \/ RunTwo3
    \/ StepTwo1 \/ StepTwo2 \/ StepTwo3
    \/ FinishTwo1 \/ FinishTwo2 \/ FinishTwo3

SpecTwo == InitTwo /\ [][NextTwo]_vars

\* the run r replayed with its recorded signals until n bars are processed
RECURSIVE RunTo(_, _)
RunTo(r, n) ==
    IF r.cl.pc # "loop" \/ r.cl.idx >= n THEN r
    ELSE LET date == r.cl.data.bars[r.cl.idx + 1].date
             sig == IF date \in DOMAIN r.cl.strategy.sigs
                    THEN Some(r.cl.strategy.sigs[date]) ELSE None
         IN  RunTo(RunBar(r.b, r.h, r.cl, sig), n)

\* the run of caller c made alone on a fresh Backtester with the parameters
\* of its own, after the bars the caller has processed so far
AloneAt(c) ==
    LET b == bt[call[c].self]
        fresh == Backtester(b.initial_capital, b.commission_pct,
                            b.slippage_pct, b.position_size_pct, 1)
    IN  RunTo(RunBegin(fresh, (1 :> <<>>), [IdleCall(1) EXCEPT !.op = "run"],
                       call[c].strategy, call[c].data, Some(call[c].symbol)),
              call[c].idx)

\* what caller c's call returns when it is made alone
Alone(c) ==
    FreshRun(bt[call[c].self], call[c].strategy, call[c].data,
             Some(call[c].symbol))

Sole(c) == \A o \in Callers \ {c} : call[o].self # call[c].self

\* C21: a run on a Backtester no other caller uses is not affected by the
\* runs that interleave with it on other Backtesters: after every bar its
\* portfolio, open entries and trade list are those of the same run made
\* alone, and it returns the BacktestResult the run alone returns.
C21_IsolatedRuns ==
    \A c \in Callers :
        (call[c].op = "run" /\ Sole(c)) =>
            /\ call[c].pc = "loop" =>
                 \E a \in {AloneAt(c)} :
                    /\ bt[call[c].self].portfolio = a.b.portfolio
                    /\ bt[call[c].self].open_trade_entry = a.b.open_trade_entry
                    /\ Trades(call[c].self) = a.h[a.b.trades]
            /\ call[c].pc = "done" =>
                 \E a \in {Alone(c)} :
                    View(call[c].result[1], heap) = View(a.result[1], a.h)

\* caller 3 holds a position in the middle of its run on its own Backtester
\* while caller 2 is in the middle of a run on the Backtester it shares with
\* caller 1, whose call has returned a result with a trade that the same
\* call alone does not make
C21_Witness ==
    /\ call[3].op = "run" /\ call[3].pc = "loop" /\ call[3].idx >= 1
    /\ has_position(Pf(2), call[3].symbol)
    /\ call[2].op = "run" /\ call[2].pc = "loop"
    /\ call[1].op = "run" /\ call[1].pc = "done"
    /\ call[1].self = call[2].self
    /\ Len(ResultTrades(1)) > 0
    /\ View(Alone(1).result[1], Alone(1).h).trades = <<>>

(***************************************************************************)
(* The equity curve of a returned result  (specification Spec)             *)
(***************************************************************************)
\* a trade of caller c's result was closed by the forced liquidation: it
\* ends on the last bar, where the strategy gave no sell signal
Forced(c, t) ==
    /\ t.exit_date = FinalBar(call[c]).date
    /\ ~(t.exit_date \in DOMAIN call[c].strategy.sigs
           /\ call[c].strategy.sigs[t.exit_date] = -1)

\* C22: the equity curve of the result of a run over N bars has N points,
\* on the timestamps of the bars in their order, whether or not the run
\* ended with a forced liquidation; the point of a bar where a buy was
\* filled is the cash left after the fill plus the bought shares at the
\* bar's close.
C22_EquityCurve ==
    \A c \in Callers :
        (call[c].op = "run" /\ call[c].pc = "done") =>
            LET curve == call[c].result[1].equity_curve
                bars == call[c].data.bars
                p == Pf(call[c].self)
            IN  /\ Len(curve) = Len(bars)
                /\ \A k \in DOMAIN bars :
                     /\ curve[k][1] = bars[k].date
                     /\ k > 1 => curve[k - 1][1] < curve[k][1]
                /\ \A i \in DOMAIN ResultTrades(c) :
                     \A k \in DOMAIN bars :
                        bars[k].date = ResultTrades(c)[i].entry_date =>
                          curve[k][2] =
                            RAdd(p.cash_history[k],
                                 RScale(ResultTrades(c)[i].shares,
                                        bars[k].close))

\* a returned run over MaxBars bars with slippage that bought on a bar, so
\* that the fill price differs from the close, and whose last position was
\* closed by the forced liquidation
C22_Witness ==
    /\ call[1].op = "run" /\ call[1].pc = "done"
    /\ Len(call[1].data.bars) = MaxBars
    /\ RGt(bt[1].slippage_pct, Zero)
    /\ Len(call[1].result[1].equity_curve) = MaxBars
    /\ \E i \in DOMAIN ResultTrades(1) :
         /\ Forced(1, ResultTrades(1)[i])
         /\ ResultTrades(1)[i].entry_price
              # CloseOn(1, ResultTrades(1)[i].entry_date)

(***************************************************************************)
(* The metrics of a returned result  (specification Spec)                  *)
(***************************************************************************)
\* no position was held at any snapshot of caller c's run and no trade made
FullyFlat(c) ==
    /\ ResultTrades(c) = <<>>
    /\ \A k \in DOMAIN Pf(call[c].self).position_value_history :
         Pf(call[c].self).position_value_history[k] = Zero

\* C23 as stated: the returns series has one entry per bar after the first;
\* the metrics mapping of the result is empty whenever the run has a single
\* bar or is fully flat, whatever its number of bars, and is otherwise the
\* collaborator's output on the returns series.
C23_FlatRunsHaveNoMetrics ==
    \A c \in Callers :
        (call[c].op = "run" /\ call[c].pc = "done") =>
            LET returns == get_returns(Pf(call[c].self))
                metrics == call[c].result[1].metrics
            IN  /\ Len(returns) = Len(call[c].data.bars) - 1
                /\ IF Len(call[c].data.bars) = 1 \/ FullyFlat(c)
                   THEN metrics = EmptyMetrics
                   ELSE metrics = calculate_all_metrics(returns)

\* C23, amended: the returns series has one entry per bar after the first;
\* the metrics mapping of the result is empty when the run has a single bar
\* and is otherwise the collaborator's output on the returns series, also
\* for a fully flat run, whose returns are all zero.
C23_MetricsOfReturns ==
    \A c \in Callers :
        (call[c].op = "run" /\ call[c].pc = "done") =>
            LET returns == get_returns(Pf(call[c].self))
                metrics == call[c].result[1].metrics
            IN  /\ Len(returns) = Len(call[c].data.bars) - 1
                /\ \A k \in DOMAIN returns :
                     returns[k][1] = call[c].data.bars[k + 1].date
                /\ IF Len(call[c].data.bars) = 1
                   THEN metrics = EmptyMetrics
                   ELSE metrics = calculate_all_metrics(returns)
                /\ (FullyFlat(c) /\ Len(call[c].data.bars) > 1) =>
                     /\ metrics # EmptyMetrics
                     /\ \A k \in DOMAIN returns : returns[k][2] = Zero

\* a fully flat run over MaxBars bars has returned with the collaborator's
\* output on MaxBars - 1 returns of zero
C23_Witness ==
    /\ call[1].op = "run" /\ call[1].pc = "done"
    /\ Len(call[1].data.bars) = MaxBars
    /\ FullyFlat(1)
    /\ call[1].result[1].metrics.empty = FALSE
    /\ Len(call[1].result[1].metrics.returns) = MaxBars - 1

(***************************************************************************)
(* The bookkeeping of an entry and of an exit  (specification Spec)        *)
(***************************************************************************)
\* the whole number q with q <= x < q + 1, for x >= 0
Floor(x) ==
    CHOOSE q \in 0..(RTrunc(x) + 1) : RLe(R(q), x) /\ RLt(x, R(q + 1))

\* this step of caller c processes a bar on which its strategy signals sig
BarStep(c, sig) ==
    /\ call[c].pc = "loop" /\ call'[c].pc = "loop"
    /\ call'[c].idx = call[c].idx + 1
    /\ call'[c].data.bars[call'[c].idx].date \in DOMAIN call'[c].strategy.sigs
    /\ call'[c].strategy.sigs[call'[c].data.bars[call'[c].idx].date] = sig

\* what C24 says of a bar of caller c with a buy signal and no position
EntrySized(c) ==
    LET b == bt[call[c].self]
        p == b.portfolio[1]
        q == bt'[call[c].self].portfolio[1]
        bar == call'[c].data.bars[call'[c].idx]
        exec_price == RMul(bar.close, RAdd(R(1), b.slippage_pct))
        quantity == Floor(RDiv(RMul(p.cash, b.position_size_pct),
                               RMul(exec_price, RAdd(R(1), b.commission_pct))))
        commission == RMul(b.commission_pct, RMul(R(quantity), exec_price))
        cost == RAdd(RMul(R(quantity), exec_price), commission)
    IN  IF quantity <= 0 \/ RGt(cost, p.cash)
        THEN /\ q.cash = p.cash
             /\ q.positions = p.positions
             /\ bt'[call[c].self].open_trade_entry = b.open_trade_entry
             /\ Trades(call[c].self)' = Trades(call[c].self)
        ELSE /\ q.cash = RSub(p.cash, cost)
             /\ q.positions[call[c].symbol].shares = quantity
             /\ q.positions[call[c].symbol].entry_price = exec_price
             /\ bt'[call[c].self].open_trade_entry =
                  (call[c].symbol :> EntryInfo(bar.date, exec_price,
                                               quantity, commission))
             /\ Trades(call[c].self)' = Trades(call[c].self)

ExitBooked(c) ==
    LET b == bt[call[c].self]
        p == b.portfolio[1]
        q == bt'[call[c].self].portfolio[1]
        symbol == call[c].symbol
        bar == call'[c].data.bars[call'[c].idx]
        held == p.positions[symbol].shares
        exec_price == RMul(bar.close, RSub(R(1), b.slippage_pct))
        commission == RMul(b.commission_pct, RMul(R(held), exec_price))
    IN  /\ symbol \in DOMAIN b.open_trade_entry
        /\ call'[c].sells = call[c].sells + 1
        /\ symbol \notin DOMAIN q.positions
        /\ q.cash = RAdd(p.cash, RSub(RMul(R(held), exec_price), commission))
        /\ Trades(call[c].self)' =
             Append(Trades(call[c].self),
                    [symbol |-> symbol,
                     entry_date |-> b.open_trade_entry[symbol].entry_date,
                     entry_price |-> b.open_trade_entry[symbol].entry_price,
                     exit_date |-> bar.date,
                     exit_price |-> exec_price,
                     shares |-> held,
                     side |-> "long",
                     entry_commission |->
                         b.open_trade_entry[symbol].entry_commission,
                     exit_commission |-> commission])
        /\ held = b.open_trade_entry[symbol].shares
        /\ symbol \notin DOMAIN bt'[call[c].self].open_trade_entry

\* C25: a sell signal on a bar where a position is open sells all held
\* shares in one sale, appends one Trade whose entry date, price and
\* commission are those of the open entry, whose shares are the held shares
\* and the shares of the open entry, and whose exit date, price and
\* commission are those of this bar's sale, and removes the open entry.
C25_ExitBookkeeping ==
    [][\A c \in Callers :
         (BarStep(c, -1) /\ has_position(Pf(call[c].self), call[c].symbol))
            => ExitBooked(c)]_vars

\* a sell signal has just closed a position of more than one share that was
\* bought on an earlier bar
C25_Witness ==
    /\ call[1].op = "run" /\ call[1].pc = "loop" /\ call[1].idx >= 2
    /\ LastBar(1).date \in DOMAIN call[1].strategy.sigs
    /\ call[1].strategy.sigs[LastBar(1).date] = -1
    /\ bt[1].open_trade_entry = NoEntries
    /\ Len(Trades(1)) >= 1
    /\ Trades(1)[Len(Trades(1))].exit_date = LastBar(1).date
    /\ Trades(1)[Len(Trades(1))].entry_date < LastBar(1).date
    /\ Trades(1)[Len(Trades(1))].shares > 1

(***************************************************************************)
(* Accounting of a run  (specification Spec)                               *)
(***************************************************************************)
\* this step of caller c appends a Trade to the trade list of its run
TradeStep(c) ==
    /\ call[c].pc = "loop"
    /\ bt'[call[c].self].trades = bt[call[c].self].trades
    /\ Len(Trades(call[c].self)') = Len(Trades(call[c].self)) + 1

\* the value Portfolio.sell returns in a step that appends the Trade t
SellReturn(c, t) ==
    sell(Pf(call[c].self), t.symbol, None, t.exit_price, t.exit_date,
         t.exit_commission).ret

\* C26: the final_capital of the result of a run is the cash of the
\* portfolio, which holds no position, and exceeds the initial capital by
\* the sum of the net_pnl of the result's trades; the value Portfolio.sell
\* returns for a trade is the trade's net_pnl plus its entry_commission.
C26_AccountingIdentity ==
    [][\A c \in Callers :
         /\ (call[c].op = "run" /\ call[c].pc = "loop" /\ call'[c].pc = "done") =>
              /\ call'[c].result[1].final_capital = Pf(call[c].self)'.cash
              /\ Pf(call[c].self)'.positions = NoPositions
              /\ RSub(call'[c].result[1].final_capital,
                      call'[c].result[1].initial_capital)
                   = RSum(NetPnls(ResultTrades(c)'))
         /\ TradeStep(c) =>
              LET t == Trades(call[c].self)'[Len(Trades(call[c].self)')]
              IN  SellReturn(c, t) = Some(RAdd(net_pnl(t), t.entry_commission))
      ]_vars

\* a returned run with costs and two trades, a winner and a loser, the
\* second closed by the forced liquidation
C26_Witness ==
    /\ call[1].op = "run" /\ call[1].pc = "done"
    /\ RGt(bt[1].commission_pct, Zero) /\ RGt(bt[1].slippage_pct, Zero)
    /\ Len(ResultTrades(1)) = 2
    /\ Forced(1, ResultTrades(1)[2])
    /\ \E i \in 1..2 : RGt(net_pnl(ResultTrades(1)[i]), Zero)
    /\ \E i \in 1..2 : RLt(net_pnl(ResultTrades(1)[i]), Zero)
    /\ call[1].result[1].final_capital # call[1].result[1].initial_capital

\* C27: after every bar of a run and at its end, the symbol has an open
\* entry exactly when the portfolio holds a position in it, and then the
\* entry's shares and entry_price are the position's; at the end of the run
\* there is neither.
C27_FlatOpenConsistency ==
    \A c \in Callers :
        (call[c].op = "run" /\ call[c].pc \in {"loop", "done"}) =>
            LET b == bt[call[c].self]
                symbol == call[c].symbol
            IN  /\ DOMAIN b.open_trade_entry \subseteq {symbol}
                /\ symbol \in DOMAIN b.open_trade_entry
                     <=> has_position(b.portfolio[1], symbol)
                /\ symbol \in DOMAIN b.open_trade_entry <=>
                     symbol \in DOMAIN b.portfolio[1].positions
                /\ symbol \in DOMAIN b.open_trade_entry =>
                     /\ b.open_trade_entry[symbol].shares
                          = b.portfolio[1].positions[symbol].shares
                     /\ b.open_trade_entry[symbol].entry_price
                          = b.portfolio[1].positions[symbol].entry_price
                /\ call[c].pc = "done" => b.open_trade_entry = NoEntries

\* the run holds its second position, recorded as the open entry, after
\* the first was closed and its entry removed
C27_Witness ==
    /\ call[1].op = "run" /\ call[1].pc = "loop"
    /\ call[1].idx = Len(call[1].data.bars)
    /\ Len(Trades(1)) = 1
    /\ has_position(Pf(1), call[1].symbol)
    /\ call[1].symbol \in DOMAIN bt[1].open_trade_entry
    /\ bt[1].open_trade_entry[call[1].symbol].entry_date
         > Trades(1)[1].exit_date

(***************************************************************************)
(* The trade list of a run  (specification Spec)                           *)
(***************************************************************************)
\* C28: the trades of a run are in chronological order and do not overlap:
\* each is exited strictly before the next is entered; no trade is exited
\* before it is entered, and one is entered and exited on the same bar only
\* when a buy signal on the final bar is closed by the forced liquidation.
C28_SequentialRoundTrips ==
    \A c \in Callers :
        (call[c].op = "run" /\ call[c].pc \in {"loop", "done"}) =>
            LET ts == Trades(call[c].self)
            IN  /\ \A i \in 1..(Len(ts) - 1) :
                     ts[i].exit_date < ts[i + 1].entry_date
                /\ \A i \in DOMAIN ts :
                     /\ ts[i].entry_date <= ts[i].exit_date
                     /\ ts[i].entry_date = ts[i].exit_date =>
                          /\ call[c].pc = "done"
                          /\ i = Len(ts)
                          /\ Forced(c, ts[i])
                          /\ call[c].strategy.sigs[ts[i].entry_date] = 1

\* a returned run whose second trade was bought on the final bar and closed
\* there by the forced liquidation, after a first trade of more than a bar
C28_Witness ==
    /\ call[1].op = "run" /\ call[1].pc = "done"
    /\ Len(ResultTrades(1)) = 2
    /\ ResultTrades(1)[1].entry_date < ResultTrades(1)[1].exit_date
    /\ ResultTrades(1)[2].entry_date = ResultTrades(1)[2].exit_date
    /\ ResultTrades(1)[2].exit_date = FinalBar(call[1]).date

(***************************************************************************)
(* Final capital and equity curve  (specification Spec)                    *)
(***************************************************************************)
\* the last trade of caller c's result was closed by the forced liquidation
Liquidated(c) ==
    /\ ResultTrades(c) # <<>>
    /\ Forced(c, ResultTrades(c)[Len(ResultTrades(c))])

\* C30: the final_capital of a run that ends without a forced liquidation
\* is the last value of its equity curve; after a forced liquidation, which
\* adds no point to the curve, it is that value less the slippage of the
\* sale, shares * last close * slippage_pct, and less its commission, and
\* so is at most that value.
C30_FinalCapitalAndCurve ==
    \A c \in Callers :
        (call[c].op = "run" /\ call[c].pc = "done") =>
            LET result == call[c].result[1]
                last == result.equity_curve[Len(result.equity_curve)][2]
                t == ResultTrades(c)[Len(ResultTrades(c))]
            IN  IF Liquidated(c)
                THEN /\ result.final_capital =
                          RSub(RSub(last,
                                    RMul(RMul(R(t.shares), FinalBar(call[c]).close),
                                         bt[call[c].self].slippage_pct)),
                               t.exit_commission)
                     /\ RLe(result.final_capital, last)
                     /\ Len(result.equity_curve) = Len(call[c].data.bars)
                ELSE result.final_capital = last

\* a returned run with slippage and commission whose forced liquidation
\* left a final capital below the last value of the equity curve
C30_Witness ==
    /\ call[1].op = "run" /\ call[1].pc = "done"
    /\ Liquidated(1)
    /\ RGt(bt[1].slippage_pct, Zero) /\ RGt(bt[1].commission_pct, Zero)
    /\ RLt(call[1].result[1].final_capital,
           call[1].result[1].equity_curve[Len(call[1].data.bars)][2])

(***************************************************************************)
(* Binary floating point.  The amounts of the engine are Python floats:    *)
(* IEEE 754 binary64, every operation rounded to the nearest value of 53   *)
(* significant bits, ties to even.  A float is <<m, e>>, the magnitude m   *)
(* (digits to the base Base) times 2^e; only positive amounts and zero     *)
(* occur, far from the limits of the exponent.                             *)
(***************************************************************************)
Precision == 53

\* the magnitude of 2^k
RECURSIVE Pow2Mag(_)
Pow2Mag(k) == IF k <= 9 THEN <<2 ^ k>> ELSE MagMulDigit(Pow2Mag(k - 9), 512)

MagMul(a, b) == Wide("MagMul", <<a, b>>)
MagDivMod(a, b) == Wide("MagDivMod", <<a, b>>)

\* the number of bits of the magnitude m # 0: Base^(n-1) <= m < Base^n
\* places it between 9 * (n - 1) and 10 * n
BitLen(m) ==
    CHOOSE l \in (9 * (Len(m) - 1))..(10 * Len(m)) :
        /\ MagCmp(Pow2Mag(l), m) > 0
        /\ l = 0 \/ MagCmp(Pow2Mag(l - 1), m) <= 0

\* qr: quotient and remainder of a magnitude by 2 * half; the quotient
\* rounded to the nearest, ties to even; sticky: the magnitude stood for
\* a value a little above it
RoundBy(qr, half, e, sticky) ==
    IF \/ MagCmp(qr[2], half) > 0
       \/ MagCmp(qr[2], half) = 0 /\ (sticky \/ Digit0(qr[1]) % 2 = 1)
    THEN <<MagAdd(qr[1], <<1>>), e>>
    ELSE <<qr[1], e>>

RoundAt(m, e, sticky, l) ==
    IF l <= Precision THEN <<m, e>>
    ELSE Only({RoundBy(qr, Pow2Mag(l - Precision - 1), e + l - Precision, sticky) :
                 qr \in {MagDivMod(m, Pow2Mag(l - Precision))}})

\* the float nearest to m * 2^e
Round(m, e, sticky) ==
    IF m = <<>> THEN <<<<>>, 0>>
    ELSE Only({RoundAt(m, e, sticky, l) : l \in {BitLen(m)}})

FZero == <<<<>>, 0>>
FOne == <<<<1>>, 0>>
FFromInt(n) == <<ToMag(n), 0>>

\* the magnitude of the float a in units of 2^e, e at most a's exponent
Aligned(a, e) == IF a[2] = e THEN a[1] ELSE MagMul(a[1], Pow2Mag(a[2] - e))

FCmp(a, b) ==
    MagCmp(Aligned(a, Min(a[2], b[2])), Aligned(b, Min(a[2], b[2])))

FAdd(a, b) ==
    Round(MagAdd(Aligned(a, Min(a[2], b[2])), Aligned(b, Min(a[2], b[2]))),
          Min(a[2], b[2]), FALSE)

FMul(a, b) == Round(MagMul(a[1], b[1]), a[2] + b[2], FALSE)

\* a / b from the quotient of a * 2^k by b, k such that the quotient has
\* more than Precision + 1 bits
FDivBy(a, b, k) ==
    Only({Round(qr[1], a[2] - b[2] - k, qr[2] # <<>>) :
            qr \in {MagDivMod(MagMul(a[1], Pow2Mag(k)), b[1])}})

FDiv(a, b) ==
    IF a[1] = <<>> THEN FZero
    ELSE FDivBy(a, b, Max(0, Precision + 3 + BitLen(b[1]) - BitLen(a[1])))

\* Python's int(a) for a >= 0
FInt(a) ==
    IF a[2] >= 0 THEN MagInt(Aligned(a, 0))
    ELSE MagInt(MagDivMod(a[1], Pow2Mag(-a[2]))[1])

\* the float of the decimal literal n / d
FDec(x) == FDiv(FFromInt(x[1]), FFromInt(x[2]))

(***************************************************************************)
(* A buy signal on the first bar of a run, in float arithmetic             *)
(* (specification SpecFloat).  A closing price, a rate or a fraction is    *)
(* given as the decimal literal n / d, the capital as an integer.          *)
(***************************************************************************)
FloatCapitals == {101, 1000, 1001, 1100}
FloatCloses ==
    {<<32, 10>>, <<10, 1>>, <<143, 10>>, <<154, 10>>, <<25, 1>>, <<352, 10>>,
     <<50, 1>>, <<572, 10>>, <<616, 10>>, <<100, 1>>, <<1144, 10>>, <<2002, 10>>}
FloatRates == {<<<<25, 100>>, <<0, 1>>>>, <<<<1, 1000>>, <<5, 10000>>>>,
               <<<<25, 100>>, <<1, 100>>>>}      \* commission_pct, slippage_pct
FloatFractions == {<<1, 1>>, <<1, 2>>}            \* position_size_pct

\* apply_slippage(price, 'buy')
apply_slippage_f64(b, price) == FMul(price, FAdd(FOne, b.slippage_pct))

calculate_shares_f64(b, price, available_capital) ==
    IF FCmp(price, FZero) <= 0 \/ FCmp(available_capital, FZero) <= 0 THEN 0
    ELSE FInt(FDiv(available_capital,
                   FMul(price, FAdd(FOne, b.commission_pct))))

calculate_commission_f64(b, shares, price) ==
    FMul(FMul(FFromInt(shares), price), b.commission_pct)

Sized_f64(b, execution_price, shares) ==
    Order(execution_price, shares,
          IF shares <= 0 THEN FZero
          ELSE calculate_commission_f64(b, shares, execution_price))

Priced_f64(b, cash, execution_price) ==
    Only({Sized_f64(b, execution_price, shares) :
            shares \in {calculate_shares_f64(b, execution_price,
                                             FMul(cash, b.position_size_pct))}})

\* engine.py 105-112: the order of a buy signal at the close price
BuyOrder_f64(b, cash, price) ==
    Only({Priced_f64(b, cash, execution_price) :
            execution_price \in {apply_slippage_f64(b, price)}})

\* portfolio.py 83-86: the cost of the order and whether the cash covers it
Cost_f64(o) == FAdd(FMul(FFromInt(o.shares), o.execution_price), o.commission)

buy_f64(cash, o) ==
    Only({[success |-> FCmp(cost, cash) <= 0, cost |-> cost] :
            cost \in {Cost_f64(o)}})

InitFloat ==
    /\ bt = [k \in Insts |-> Backtester(Zero, Zero, Zero, Zero, k)]
    /\ heap = [k \in Insts |-> <<>>]
    /\ call = [c \in Callers |-> IdleCall(1)]
    /\ pf = Portfolio(Zero)
    /\ lastCall = NoCall

\* run begins with the cash initial_capital; the first bar closes at close
\* and carries a buy signal: _process_buy_signal sizes the order
FloatSignal ==
    /\ lastCall.op = "none"
    /\ \E capital \in FloatCapitals, rates \in FloatRates,
          fraction \in FloatFractions, close \in FloatCloses :
         \E b \in {Backtester(FFromInt(capital), FDec(rates[1]), FDec(rates[2]),
                              FDec(fraction), 1)} :
            lastCall' = [op |-> "signal",
                         args |-> [b |-> b, cash |-> b.initial_capital,
                                   close |-> FDec(close)],
                         ret |-> BuyOrder_f64(b, b.initial_capital, FDec(close))]
    /\ UNCHANGED <<bt, heap, call, pf>>

\* engine.py 109-110: no share is affordable, the signal is skipped
FloatSkip ==
    /\ lastCall.op = "signal"
    /\ lastCall.ret.shares <= 0
    /\ lastCall' = [lastCall EXCEPT !.op = "skip"]
    /\ UNCHANGED <<bt, heap, call, pf>>

\* engine.py 112-119: Portfolio.buy is called with the order
FloatBuy ==
    /\ lastCall.op = "signal"
    /\ lastCall.ret.shares > 0
    /\ lastCall' = [op |-> "buy",
                    args |-> [b |-> lastCall.args.b, cash |-> lastCall.args.cash,
                              close |-> lastCall.args.close, order |-> lastCall.ret],
                    ret |-> buy_f64(lastCall.args.cash, lastCall.ret)]
    /\ UNCHANGED <<bt, heap, call, pf>>

NextFloat == FloatSignal \/ FloatSkip \/ FloatBuy

SpecFloat == InitFloat /\ [][NextFloat]_vars

\* C29: with 0 < position_size_pct <= 1, commission_pct >= 0 and a positive
\* close, the Portfolio.buy that follows a computed quantity of at least 1
\* succeeds: its cost is covered by the cash.
C29_SizedBuysAdmitted ==
    (/\ lastCall.op = "buy"
     /\ FCmp(lastCall.args.b.position_size_pct, FZero) > 0
     /\ FCmp(lastCall.args.b.position_size_pct, FOne) <= 0
     /\ FCmp(lastCall.args.close, FZero) > 0
     /\ lastCall.args.order.shares >= 1)
        => lastCall.ret.success

=============================================================================
